---- MODULE Spec2Model ----
(***************************************************************************)
(* Attestation handshake handlers of oak_session (attestation.rs): the     *)
(* client and server AttestationHandler / ProtocolEngine implementations,  *)
(* the verifier merge-join and the binding-token serialization.            *)
(***************************************************************************)
EXTENDS Integers, Sequences, FiniteSets, TLC

\* handler, moved, calls: the attestation handlers and the calls made on
\* them.  input, output: the argument and the result of a function that is
\* applied on its own (quote validation, policy generation).  client,
\* write_guard, tasks, connects: the SharedDbClient of oak_private_memory, the
\* tasks that call it and the connections made.  session_context,
\* persistence_tx, blobs, dropped, log: a SealedMemorySessionHandler, the
\* channel to the persistence service, the database service and the requests
\* handled.
VARIABLES handler, moved, calls, input, output,
          client, write_guard, tasks, connects,
          session_context, persistence_tx, blobs, dropped, log

vars == <<handler, moved, calls, input, output,
          client, write_guard, tasks, connects,
          session_context, persistence_tx, blobs, dropped, log>>

handlerVars == <<handler, moved, calls>>

functionVars == <<input, output>>

dbVars == <<client, write_guard, tasks, connects>>

sessionVars == <<session_context, persistence_tx, blobs, dropped, log>>

(***************************************************************************)
(* Bounds of the model.                                                    *)
(***************************************************************************)
\* The number of get_outgoing_message / put_incoming_message calls made in one
\* behaviour, over all handlers.
MaxCalls == 4

(***************************************************************************)
(* Option, Result.                                                         *)
(***************************************************************************)
None == [some |-> FALSE]

Some(v) == [some |-> TRUE, val |-> v]

IsSome(o) == o.some

Ok(v) == [tag |-> "Ok", val |-> v]

Err(e) == [tag |-> "Err", err |-> e]

IsOk(r) == r.tag = "Ok"

\* The unit value () of Option<()>.
Unit == "unit"

\* No function is being applied: the behaviour is one of the handlers.
NoFunction == input = None /\ output = None

\* No handler exists: the behaviour is the application of a function.
NoHandlers == handler = None /\ moved = None /\ calls = None

\* No SharedDbClient exists.
NoDb == client = None /\ write_guard = None /\ tasks = None /\ connects = None

\* No SealedMemorySessionHandler exists.
NoSession ==
    /\ session_context = None
    /\ persistence_tx = None
    /\ blobs = None
    /\ dropped = None
    /\ log = None

(***************************************************************************)
(* Bytes, strings and BTreeMap<String, _>.  A String is the sequence of    *)
(* its bytes; a map is a function whose domain is its key set; a BTreeMap  *)
(* iterates its keys in ascending (lexicographic byte) order.              *)
(***************************************************************************)
Colon == 58

Pipe == 124

EmptyMap == [k \in {} |-> 0]

\* Ord for String: lexicographic comparison of the bytes.
RECURSIVE StrLess(_, _)
StrLess(s, t) ==
    IF t = <<>> THEN FALSE
    ELSE IF s = <<>> THEN TRUE
    ELSE IF Head(s) # Head(t) THEN Head(s) < Head(t)
    ELSE StrLess(Tail(s), Tail(t))

\* Ord::cmp(id1, id2) as "Less", "Equal" or "Greater".
StrCmp(s, t) ==
    IF s = t THEN "Equal" ELSE IF StrLess(s, t) THEN "Less" ELSE "Greater"

MinKey(S) == CHOOSE k \in S : \A j \in S : j = k \/ StrLess(k, j)

\* The keys of a BTreeMap in iteration order.
RECURSIVE SortedKeys(_)
SortedKeys(S) ==
    IF S = {} THEN <<>>
    ELSE LET k == MinKey(S) IN <<k>> \o SortedKeys(S \ {k})

\* BTreeMap::iter / into_iter: the (key, value) pairs in ascending key order.
Iter(m) ==
    LET ks == SortedKeys(DOMAIN m)
    IN [i \in 1..Len(ks) |-> <<ks[i], m[ks[i]]>>]

RECURSIVE Concat(_)
Concat(ss) == IF ss = <<>> THEN <<>> ELSE Head(ss) \o Concat(Tail(ss))

\* prost's Message::encode_to_vec for String: the wrapper message with the
\* string as field 1 (tag byte 0x0A, length varint, bytes); the empty string
\* is the default value and encodes to nothing.  Lengths stay below 128, so
\* the varint is one byte.
EncodeToVec(id) ==
    IF id = <<>> THEN <<>> ELSE <<10, Len(id)>> \o id

\* Variant of SerializeEntry: the bytes of the ID as they are, not encoded.
SerializeEntryRawId(id, assertion) ==
    id \o <<Colon>> \o assertion.content \o <<Pipe>>

SerializeEntry(id, assertion) ==
    EncodeToVec(id) \o <<Colon>> \o assertion.content \o <<Pipe>>

SerializeAssertions(assertions) ==
    LET es == Iter(assertions)
    IN Concat([i \in 1..Len(es) |-> SerializeEntry(es[i][1], es[i][2])])

(***************************************************************************)
(* Attestation data.  Evidence and Endorsements are opaque to the handler; *)
(* what a verifier says about them is a function of their content.         *)
(***************************************************************************)
Id_a == <<97>>

Id_ab == <<97, 98>>

Id_b == <<98>>

\* EndorsedEvidence { evidence: Option<Evidence>, endorsements: Option<Endorsements> }
EndorsedEvidence(evidence, endorsements) ==
    [evidence |-> evidence, endorsements |-> endorsements]

\* Assertion { content: Vec<u8> }
Assertion(content) == [content |-> content]

\* AttestationVerifier::verify(evidence, endorsements): Ok(AttestationResults)
\* with status Success, GenericFailure or Unspecified, or an error of the
\* verifier itself.
Verify(verifier, evidence, endorsements) ==
    IF evidence = "ev_garbled" THEN Err([msg |-> "verifier error"])
    ELSE IF evidence = "ev_ok"
         THEN Ok([status |-> "Success", reason |-> ""])
    ELSE IF evidence = "ev_unspecified"
         THEN Ok([status |-> "Unspecified", reason |-> ""])
         ELSE Ok([status |-> "GenericFailure", reason |-> "evidence rejected"])

\* SessionBindingVerifierProvider::create_session_binding_verifier(result).
CreateSessionBindingVerifier(provider, result) ==
    IF provider = "provider_failing" THEN Err([msg |-> "binding verifier provider error"])
    ELSE Ok([binds |-> result])

(***************************************************************************)
(* combine_attestation_results: the merge-join of the verifiers with the   *)
(* received endorsed evidence.                                             *)
(***************************************************************************)
\* Variant of MergeJoinBy: a left join, which drops the items found only in rs.
RECURSIVE MergeJoinByLeft(_, _)
MergeJoinByLeft(ls, rs) ==
    IF ls = <<>> THEN <<>>
    ELSE IF rs = <<>> THEN [i \in 1..Len(ls) |-> [side |-> "Left", id |-> ls[i][1], left |-> ls[i][2]]]
    ELSE LET c == StrCmp(Head(ls)[1], Head(rs)[1])
         IN CASE c = "Less" ->
                   <<[side |-> "Left", id |-> Head(ls)[1], left |-> Head(ls)[2]]>>
                       \o MergeJoinByLeft(Tail(ls), rs)
              [] c = "Greater" -> MergeJoinByLeft(ls, Tail(rs))
              [] OTHER ->
                   <<[side |-> "Both", id |-> Head(rs)[1], left |-> Head(ls)[2],
                      right |-> Head(rs)[2]]>>
                       \o MergeJoinByLeft(Tail(ls), Tail(rs))

\* itertools merge_join_by over two key-sorted sequences of (id, value).
RECURSIVE MergeJoinBy(_, _)
MergeJoinBy(ls, rs) ==
    IF ls = <<>> THEN [i \in 1..Len(rs) |-> [side |-> "Right", id |-> rs[i][1], right |-> rs[i][2]]]
    ELSE IF rs = <<>> THEN [i \in 1..Len(ls) |-> [side |-> "Left", id |-> ls[i][1], left |-> ls[i][2]]]
    ELSE LET c == StrCmp(Head(ls)[1], Head(rs)[1])
         IN CASE c = "Less" ->
                   <<[side |-> "Left", id |-> Head(ls)[1], left |-> Head(ls)[2]]>>
                       \o MergeJoinBy(Tail(ls), rs)
              [] c = "Greater" ->
                   <<[side |-> "Right", id |-> Head(rs)[1], right |-> Head(rs)[2]]>>
                       \o MergeJoinBy(ls, Tail(rs))
              [] OTHER ->
                   <<[side |-> "Both", id |-> Head(rs)[1], left |-> Head(ls)[2],
                      right |-> Head(rs)[2]]>>
                       \o MergeJoinBy(Tail(ls), Tail(rs))

\* Variant of JoinItemResult: only the status GenericFailure counts as a
\* failure; any other status is taken for a success.
JoinItemResultOnlyGenericFails(v) ==
    CASE v.side = "Both" ->
           LET ee == v.right
           IN IF IsSome(ee.evidence) /\ IsSome(ee.endorsements)
              THEN LET result == Verify(v.left.verifier, ee.evidence.val, ee.endorsements.val)
                   IN IF ~IsOk(result) THEN Err(result.err)
                      ELSE IF result.val.status # "GenericFailure"
                           THEN Ok([kind |-> "Success", evidence |-> ee, result |-> result.val])
                           ELSE Ok([kind |-> "Failure", evidence |-> ee, result |-> result.val])
              ELSE Ok([kind |-> "Failure", evidence |-> ee,
                       result |-> [status |-> "GenericFailure",
                                   reason |-> "Both evidence and endorsements need to be provided"]])
      [] v.side = "Left" -> Ok([kind |-> "Missing"])
      [] OTHER -> Ok([kind |-> "Unverified", evidence |-> v.right])

\* Variant of JoinItemResult: evidence that comes without its endorsements,
\* or endorsements without evidence, is passed over as Unverified.
JoinItemResultLenient(v) ==
    CASE v.side = "Both" ->
           LET ee == v.right
           IN IF IsSome(ee.evidence) /\ IsSome(ee.endorsements)
              THEN LET result == Verify(v.left.verifier, ee.evidence.val, ee.endorsements.val)
                   IN IF ~IsOk(result) THEN Err(result.err)
                      ELSE IF result.val.status = "Success"
                           THEN Ok([kind |-> "Success", evidence |-> ee, result |-> result.val])
                           ELSE Ok([kind |-> "Failure", evidence |-> ee, result |-> result.val])
              ELSE Ok([kind |-> "Unverified", evidence |-> ee])
      [] v.side = "Left" -> Ok([kind |-> "Missing"])
      [] OTHER -> Ok([kind |-> "Unverified", evidence |-> v.right])

\* Variant of JoinItemResult: an error of the verifier itself is captured as a
\* Failure whose reason is the error.
JoinItemResultCapturing(v) ==
    CASE v.side = "Both" ->
           LET ee == v.right
           IN IF IsSome(ee.evidence) /\ IsSome(ee.endorsements)
              THEN LET result == Verify(v.left.verifier, ee.evidence.val, ee.endorsements.val)
                   IN IF ~IsOk(result)
                      THEN Ok([kind |-> "Failure", evidence |-> ee,
                               result |-> [status |-> "GenericFailure",
                                           reason |-> result.err.msg]])
                      ELSE IF result.val.status = "Success"
                           THEN Ok([kind |-> "Success", evidence |-> ee, result |-> result.val])
                           ELSE Ok([kind |-> "Failure", evidence |-> ee, result |-> result.val])
              ELSE Ok([kind |-> "Failure", evidence |-> ee,
                       result |-> [status |-> "GenericFailure",
                                   reason |-> "Both evidence and endorsements need to be provided"]])
      [] v.side = "Left" -> Ok([kind |-> "Missing"])
      [] OTHER -> Ok([kind |-> "Unverified", evidence |-> v.right])

\* Variant of JoinItemResult: evidence for which there is no verifier is
\* taken for verified.
JoinItemResultTrusting(v) ==
    CASE v.side = "Both" ->
           LET ee == v.right
           IN IF IsSome(ee.evidence) /\ IsSome(ee.endorsements)
              THEN LET result == Verify(v.left.verifier, ee.evidence.val, ee.endorsements.val)
                   IN IF ~IsOk(result) THEN Err(result.err)
                      ELSE IF result.val.status = "Success"
                           THEN Ok([kind |-> "Success", evidence |-> ee, result |-> result.val])
                           ELSE Ok([kind |-> "Failure", evidence |-> ee, result |-> result.val])
              ELSE Ok([kind |-> "Failure", evidence |-> ee,
                       result |-> [status |-> "GenericFailure",
                                   reason |-> "Both evidence and endorsements need to be provided"]])
      [] v.side = "Left" -> Ok([kind |-> "Missing"])
      [] OTHER -> Ok([kind |-> "Success", evidence |-> v.right,
                      result |-> [status |-> "Success", reason |-> ""]])

\* The closure mapped over the join: Result<(id, VerifierResult)> for one item.
JoinItemResult(v) ==
    CASE v.side = "Both" ->
           LET ee == v.right
           IN IF IsSome(ee.evidence) /\ IsSome(ee.endorsements)
              THEN LET result == Verify(v.left.verifier, ee.evidence.val, ee.endorsements.val)
                   IN IF ~IsOk(result) THEN Err(result.err)
                      ELSE IF result.val.status = "Success"
                           THEN Ok([kind |-> "Success", evidence |-> ee, result |-> result.val])
                           ELSE Ok([kind |-> "Failure", evidence |-> ee, result |-> result.val])
              ELSE Ok([kind |-> "Failure", evidence |-> ee,
                       result |-> [status |-> "GenericFailure",
                                   reason |-> "Both evidence and endorsements need to be provided"]])
      [] v.side = "Left" -> Ok([kind |-> "Missing"])
      [] OTHER -> Ok([kind |-> "Unverified", evidence |-> v.right])

\* Whether the closure calls verifier.verify for this item.
InvokesVerifier(v) ==
    /\ v.side = "Both"
    /\ IsSome(v.right.evidence)
    /\ IsSome(v.right.endorsements)

\* collect::<Result<BTreeMap, Error>>: the items are mapped in order and the
\* first error ends the iteration.  `invoked` lists the IDs whose verifier ran.
RECURSIVE CollectResults(_, _, _)
CollectResults(joined, acc, invoked) ==
    IF joined = <<>> THEN [result |-> Ok(acc), invoked |-> invoked]
    ELSE LET v == Head(joined)
             r == JoinItemResult(v)
             inv == IF InvokesVerifier(v) THEN Append(invoked, v.id) ELSE invoked
         IN IF ~IsOk(r) THEN [result |-> Err(r.err), invoked |-> inv]
            ELSE CollectResults(Tail(joined),
                                [k \in DOMAIN acc \cup {v.id} |->
                                    IF k = v.id THEN r.val ELSE acc[k]],
                                inv)

CombineAttestationResults(verifiers, attested_evidence) ==
    CollectResults(MergeJoinBy(Iter(verifiers), Iter(attested_evidence)), EmptyMap, <<>>)

\* Variant of AggregateAttestationResults: passes whenever nothing failed,
\* also when nothing was verified.
AggregateAttestationResultsVacuousPass(aggregator, results) ==
    IF \E id \in DOMAIN results : results[id].kind = "Failure"
    THEN [verdict |-> "AttestationFailed", reason |-> "verification failed",
          attestation_results |-> results]
    ELSE [verdict |-> "AttestationPassed", attestation_results |-> results]

\* DefaultVerifierResultsAggregator: at least one verified piece of evidence,
\* and every verified piece successful.
AggregateAttestationResults(aggregator, results) ==
    IF \E id \in DOMAIN results : results[id].kind = "Failure"
    THEN [verdict |-> "AttestationFailed", reason |-> "verification failed",
          attestation_results |-> results]
    ELSE IF \E id \in DOMAIN results : results[id].kind = "Success"
    THEN [verdict |-> "AttestationPassed", attestation_results |-> results]
    ELSE [verdict |-> "AttestationFailed", reason |-> "no verified evidence",
          attestation_results |-> results]

\* Variant of GetAttestationResults: the results of a passed attestation
\* only; a failed one shows none.
GetAttestationResultsPassedOnly(verdict) ==
    IF verdict.verdict = "AttestationPassed" THEN verdict.attestation_results
    ELSE EmptyMap

\* PeerAttestationVerdict::get_attestation_results
GetAttestationResults(verdict) == verdict.attestation_results

(***************************************************************************)
(* AttestationHandlerConfig and handler construction.  An attester, an     *)
(* endorser or an assertion generator is the outcome of its one method.    *)
(***************************************************************************)
\* Attester::quote
Quote(attester) ==
    IF attester.fails THEN Err([msg |-> "quote failed"]) ELSE Ok(attester.evidence)

\* Endorser::endorse(Some(&evidence))
Endorse(endorser, evidence) ==
    IF endorser.fails THEN Err([msg |-> "endorse failed"]) ELSE Ok(endorser.endorsements)

\* AssertionGenerator::generate: a BindableAssertion owning its Assertion.
Generate(generator) ==
    IF generator.fails THEN Err([msg |-> "generate failed"])
    ELSE Ok([assertion |-> Assertion(generator.content)])

\* bindable_assertions.iter().map(|(id, b)| (id, b.assertion().clone())).collect()
AssertionsOf(bindable_assertions) ==
    [id \in DOMAIN bindable_assertions |-> bindable_assertions[id].assertion]

\* The first part of create: every generator runs, in ID order; the first
\* failure is returned.
CreateBindableAssertions(config) ==
    LET gens == config.self_assertion_generators
        failing == {id \in DOMAIN gens : ~IsOk(Generate(gens[id]))}
    IN IF failing # {} THEN Err(Generate(gens[MinKey(failing)]).err)
       ELSE Ok([id \in DOMAIN gens |-> Generate(gens[id]).val])

\* Variant of CreateEndorsedEvidenceEntry: an endorser that fails is passed
\* over and the evidence goes out without endorsements.
CreateEndorsedEvidenceEntryForgiving(config, id) ==
    LET evidence == Quote(config.self_attesters[id])
    IN IF ~IsOk(evidence) THEN Err(evidence.err)
       ELSE IF id \in DOMAIN config.self_endorsers
            THEN LET endorsements == Endorse(config.self_endorsers[id], evidence.val)
                 IN IF ~IsOk(endorsements)
                    THEN Ok(EndorsedEvidence(Some(evidence.val), None))
                    ELSE Ok(EndorsedEvidence(Some(evidence.val), Some(endorsements.val)))
            ELSE Ok(EndorsedEvidence(Some(evidence.val), None))

\* Variant of CreateEndorsedEvidenceEntry: evidence without an endorser is
\* sent with the content of a default Endorsements message.
CreateEndorsedEvidenceEntryDefaulting(config, id) ==
    LET evidence == Quote(config.self_attesters[id])
    IN IF ~IsOk(evidence) THEN Err(evidence.err)
       ELSE IF id \in DOMAIN config.self_endorsers
            THEN LET endorsements == Endorse(config.self_endorsers[id], evidence.val)
                 IN IF ~IsOk(endorsements) THEN Err(endorsements.err)
                    ELSE Ok(EndorsedEvidence(Some(evidence.val), Some(endorsements.val)))
            ELSE Ok(EndorsedEvidence(Some(evidence.val), Some("default")))

\* The closure of create that builds one EndorsedEvidence.
CreateEndorsedEvidenceEntry(config, id) ==
    LET evidence == Quote(config.self_attesters[id])
    IN IF ~IsOk(evidence) THEN Err(evidence.err)
       ELSE IF id \in DOMAIN config.self_endorsers
            THEN LET endorsements == Endorse(config.self_endorsers[id], evidence.val)
                 IN IF ~IsOk(endorsements) THEN Err(endorsements.err)
                    ELSE Ok(EndorsedEvidence(Some(evidence.val), Some(endorsements.val)))
            ELSE Ok(EndorsedEvidence(Some(evidence.val), None))

CreateEndorsedEvidence(config) ==
    LET atts == config.self_attesters
        failing == {id \in DOMAIN atts : ~IsOk(CreateEndorsedEvidenceEntry(config, id))}
    IN IF failing # {} THEN Err(CreateEndorsedEvidenceEntry(config, MinKey(failing)).err)
       ELSE Ok([id \in DOMAIN atts |-> CreateEndorsedEvidenceEntry(config, id).val])

\* ClientAttestationHandler::create
ClientCreate(config) ==
    LET bindable_assertions == CreateBindableAssertions(config)
        endorsed_evidence == CreateEndorsedEvidence(config)
    IN IF ~IsOk(bindable_assertions) THEN Err(bindable_assertions.err)
       ELSE IF ~IsOk(endorsed_evidence) THEN Err(endorsed_evidence.err)
       ELSE Ok([attest_request |->
                    Some([endorsed_evidence |-> endorsed_evidence.val,
                          assertions |-> AssertionsOf(bindable_assertions.val)]),
                bindable_assertions |-> bindable_assertions.val,
                config |-> config,
                attestation_result |-> None,
                attestation_binding_token |-> <<>>])

\* ServerAttestationHandler::create
ServerCreate(config) ==
    LET bindable_assertions == CreateBindableAssertions(config)
        endorsed_evidence == CreateEndorsedEvidence(config)
    IN IF ~IsOk(bindable_assertions) THEN Err(bindable_assertions.err)
       ELSE IF ~IsOk(endorsed_evidence) THEN Err(endorsed_evidence.err)
       ELSE Ok([attest_response |->
                    Some([endorsed_evidence |-> endorsed_evidence.val,
                          assertions |-> AssertionsOf(bindable_assertions.val)]),
                bindable_assertions |-> bindable_assertions.val,
                config |-> config,
                attestation_result |-> None,
                attestation_binding_token |-> <<>>])

(***************************************************************************)
(* The operations of a handler, as functions of the handler `self`: the    *)
(* handler after the call, and what the call returns.                      *)
(***************************************************************************)
\* Variant of ClientGetOutgoingMessage: returns a clone of attest_request
\* and leaves it in place.
ClientGetOutgoingMessageCloning(self) ==
    [self |-> [self EXCEPT
                  !.attestation_binding_token =
                      @ \o SerializeAssertions(AssertionsOf(self.bindable_assertions))],
     ret |-> Ok(self.attest_request)]

\* Variant of ClientGetOutgoingMessage: extends the token only on the call
\* that returns the message.
ClientGetOutgoingMessageOnce(self) ==
    [self |-> [self EXCEPT
                  !.attestation_binding_token =
                      IF IsSome(self.attest_request)
                      THEN @ \o SerializeAssertions(AssertionsOf(self.bindable_assertions))
                      ELSE @,
                  !.attest_request = None],
     ret |-> Ok(self.attest_request)]

\* ClientAttestationHandler::get_outgoing_message
ClientGetOutgoingMessage(self) ==
    [self |-> [self EXCEPT
                  !.attestation_binding_token =
                      @ \o SerializeAssertions(AssertionsOf(self.bindable_assertions)),
                  !.attest_request = None],
     ret |-> Ok(self.attest_request)]

\* Variant of ServerGetOutgoingMessage: hands the message out without
\* binding the handler's own assertions into the token.
ServerGetOutgoingMessageUnbound(self) ==
    [self |-> [self EXCEPT !.attest_response = None],
     ret |-> Ok(self.attest_response)]

\* ServerAttestationHandler::get_outgoing_message
ServerGetOutgoingMessage(self) ==
    [self |-> [self EXCEPT
                  !.attestation_binding_token =
                      @ \o SerializeAssertions(AssertionsOf(self.bindable_assertions)),
                  !.attest_response = None],
     ret |-> Ok(self.attest_response)]

\* Variant of ClientPutIncomingMessage: the early return comes before the
\* token is extended.
ClientPutIncomingMessageRejecting(self, incoming_message) ==
    LET extended == [self EXCEPT
                        !.attestation_binding_token =
                            @ \o SerializeAssertions(incoming_message.assertions)]
    IN IF IsSome(self.attestation_result)
       THEN [self |-> self, ret |-> Ok(None), invoked |-> <<>>]
       ELSE LET combined == CombineAttestationResults(extended.config.peer_verifiers,
                                                      incoming_message.endorsed_evidence)
            IN IF ~IsOk(combined.result)
               THEN [self |-> extended, ret |-> Err(combined.result.err),
                     invoked |-> combined.invoked]
               ELSE [self |-> [extended EXCEPT
                                  !.attestation_result =
                                      Some(AggregateAttestationResults(
                                          extended.config.attestation_results_aggregator,
                                          combined.result.val))],
                     ret |-> Ok(Some(Unit)),
                     invoked |-> combined.invoked]

\* Variant of ClientPutIncomingMessage: no early return, every message is
\* verified and replaces the verdict.
ClientPutIncomingMessageRecomputing(self, incoming_message) ==
    LET extended == [self EXCEPT
                        !.attestation_binding_token =
                            @ \o SerializeAssertions(incoming_message.assertions)]
        combined == CombineAttestationResults(extended.config.peer_verifiers,
                                              incoming_message.endorsed_evidence)
    IN IF ~IsOk(combined.result)
       THEN [self |-> extended, ret |-> Err(combined.result.err),
             invoked |-> combined.invoked]
       ELSE [self |-> [extended EXCEPT
                          !.attestation_result =
                              Some(AggregateAttestationResults(
                                  extended.config.attestation_results_aggregator,
                                  combined.result.val))],
             ret |-> Ok(Some(Unit)),
             invoked |-> combined.invoked]

\* Variant of ClientPutIncomingMessage: the early return tests attest_request
\* instead of attestation_result.
ClientPutIncomingMessageWrongGuard(self, incoming_message) ==
    LET extended == [self EXCEPT
                        !.attestation_binding_token =
                            @ \o SerializeAssertions(incoming_message.assertions)]
    IN IF IsSome(extended.attest_request)
       THEN [self |-> extended, ret |-> Ok(None), invoked |-> <<>>]
       ELSE LET combined == CombineAttestationResults(extended.config.peer_verifiers,
                                                      incoming_message.endorsed_evidence)
            IN IF ~IsOk(combined.result)
               THEN [self |-> extended, ret |-> Err(combined.result.err),
                     invoked |-> combined.invoked]
               ELSE [self |-> [extended EXCEPT
                                  !.attestation_result =
                                      Some(AggregateAttestationResults(
                                          extended.config.attestation_results_aggregator,
                                          combined.result.val))],
                     ret |-> Ok(Some(Unit)),
                     invoked |-> combined.invoked]

\* Variant of ClientPutIncomingMessage: a call whose verifier fails leaves
\* the handler as it found it.
ClientPutIncomingMessageAtomic(self, incoming_message) ==
    LET extended == [self EXCEPT
                        !.attestation_binding_token =
                            @ \o SerializeAssertions(incoming_message.assertions)]
    IN IF IsSome(extended.attestation_result)
       THEN [self |-> extended, ret |-> Ok(None), invoked |-> <<>>]
       ELSE LET combined == CombineAttestationResults(extended.config.peer_verifiers,
                                                      incoming_message.endorsed_evidence)
            IN IF ~IsOk(combined.result)
               THEN [self |-> self, ret |-> Err(combined.result.err),
                     invoked |-> combined.invoked]
               ELSE [self |-> [extended EXCEPT
                                  !.attestation_result =
                                      Some(AggregateAttestationResults(
                                          extended.config.attestation_results_aggregator,
                                          combined.result.val))],
                     ret |-> Ok(Some(Unit)),
                     invoked |-> combined.invoked]

\* ClientAttestationHandler::put_incoming_message
ClientPutIncomingMessage(self, incoming_message) ==
    LET extended == [self EXCEPT
                        !.attestation_binding_token =
                            @ \o SerializeAssertions(incoming_message.assertions)]
    IN IF IsSome(extended.attestation_result)
       THEN [self |-> extended, ret |-> Ok(None), invoked |-> <<>>]
       ELSE LET combined == CombineAttestationResults(extended.config.peer_verifiers,
                                                      incoming_message.endorsed_evidence)
            IN IF ~IsOk(combined.result)
               THEN [self |-> extended, ret |-> Err(combined.result.err),
                     invoked |-> combined.invoked]
               ELSE [self |-> [extended EXCEPT
                                  !.attestation_result =
                                      Some(AggregateAttestationResults(
                                          extended.config.attestation_results_aggregator,
                                          combined.result.val))],
                     ret |-> Ok(Some(Unit)),
                     invoked |-> combined.invoked]

\* Variant of ServerPutIncomingMessage: the incoming assertions are put in
\* front of the token instead of behind it.
ServerPutIncomingMessagePrepending(self, incoming_message) ==
    LET extended == [self EXCEPT
                        !.attestation_binding_token =
                            SerializeAssertions(incoming_message.assertions) \o @]
    IN IF IsSome(extended.attestation_result)
       THEN [self |-> extended, ret |-> Ok(None), invoked |-> <<>>]
       ELSE LET combined == CombineAttestationResults(extended.config.peer_verifiers,
                                                      incoming_message.endorsed_evidence)
            IN IF ~IsOk(combined.result)
               THEN [self |-> extended, ret |-> Err(combined.result.err),
                     invoked |-> combined.invoked]
               ELSE [self |-> [extended EXCEPT
                                  !.attestation_result =
                                      Some(AggregateAttestationResults(
                                          extended.config.attestation_results_aggregator,
                                          combined.result.val))],
                     ret |-> Ok(Some(Unit)),
                     invoked |-> combined.invoked]

\* ServerAttestationHandler::put_incoming_message
ServerPutIncomingMessage(self, incoming_message) ==
    LET extended == [self EXCEPT
                        !.attestation_binding_token =
                            @ \o SerializeAssertions(incoming_message.assertions)]
    IN IF IsSome(extended.attestation_result)
       THEN [self |-> extended, ret |-> Ok(None), invoked |-> <<>>]
       ELSE LET combined == CombineAttestationResults(extended.config.peer_verifiers,
                                                      incoming_message.endorsed_evidence)
            IN IF ~IsOk(combined.result)
               THEN [self |-> extended, ret |-> Err(combined.result.err),
                     invoked |-> combined.invoked]
               ELSE [self |-> [extended EXCEPT
                                  !.attestation_result =
                                      Some(AggregateAttestationResults(
                                          extended.config.attestation_results_aggregator,
                                          combined.result.val))],
                     ret |-> Ok(Some(Unit)),
                     invoked |-> combined.invoked]

\* Variant of PeerSessionBindingVerifiers: a binding verifier for every
\* verified ID, whether its result is Success or Failure.
PeerSessionBindingVerifiersAllVerified(config, attestation_results) ==
    LET verified == {id \in DOMAIN attestation_results :
                        attestation_results[id].kind \in {"Success", "Failure"}}
        created(id) == CreateSessionBindingVerifier(
                           config.peer_verifiers[id].binding_verifier_provider,
                           attestation_results[id].result)
        stops(id) == id \notin DOMAIN config.peer_verifiers \/ ~IsOk(created(id))
        stopping == {id \in verified : stops(id)}
    IN IF stopping = {} THEN Ok([id \in verified |-> created(id).val])
       ELSE LET first == MinKey(stopping)
            IN IF first \notin DOMAIN config.peer_verifiers
               THEN [tag |-> "Panic"]
               ELSE Err(created(first).err)

\* Variant of PeerSessionBindingVerifiers: an ID whose provider fails is left
\* out of the map instead of failing the call.
PeerSessionBindingVerifiersSkipping(config, attestation_results) ==
    LET success == {id \in DOMAIN attestation_results :
                        attestation_results[id].kind = "Success"}
        created(id) == CreateSessionBindingVerifier(
                           config.peer_verifiers[id].binding_verifier_provider,
                           attestation_results[id].result)
        stopping == {id \in success : id \notin DOMAIN config.peer_verifiers}
    IN IF stopping = {}
       THEN Ok([id \in {k \in success : IsOk(created(k))} |-> created(id).val])
       ELSE [tag |-> "Panic"]

\* The filter_map / collect of take_attestation_state: a session binding
\* verifier for every Success result, in ID order; the first provider error
\* is returned.  A Success ID without a peer verifier is the expect() panic.
PeerSessionBindingVerifiers(config, attestation_results) ==
    LET success == {id \in DOMAIN attestation_results :
                        attestation_results[id].kind = "Success"}
        created(id) == CreateSessionBindingVerifier(
                           config.peer_verifiers[id].binding_verifier_provider,
                           attestation_results[id].result)
        stops(id) == id \notin DOMAIN config.peer_verifiers \/ ~IsOk(created(id))
        stopping == {id \in success : stops(id)}
    IN IF stopping = {} THEN Ok([id \in success |-> created(id).val])
       ELSE LET first == MinKey(stopping)
            IN IF first \notin DOMAIN config.peer_verifiers
               THEN [tag |-> "Panic"]
               ELSE Err(created(first).err)

\* Variant of ClientTakeAttestationState: a missing verdict is taken for a
\* failed attestation without results instead of an error.
ClientTakeAttestationStateLenient(self) ==
    LET verdict == IF IsSome(self.attestation_result) THEN self.attestation_result.val
                   ELSE [verdict |-> "AttestationFailed", reason |-> "no verdict",
                         attestation_results |-> EmptyMap]
        verifiers == PeerSessionBindingVerifiers(self.config,
                                                 GetAttestationResults(verdict))
    IN IF ~IsOk(verifiers) THEN verifiers
       ELSE Ok([peer_session_binding_verifiers |-> verifiers.val,
                peer_attestation_verdict |-> verdict,
                self_assertions |-> self.bindable_assertions,
                attestation_binding_token |-> self.attestation_binding_token])

\* ClientAttestationHandler::take_attestation_state; the handler is consumed.
ClientTakeAttestationState(self) ==
    IF ~IsSome(self.attestation_result)
    THEN Err([msg |-> "attestation is not complete"])
    ELSE LET verdict == self.attestation_result.val
             verifiers == PeerSessionBindingVerifiers(self.config,
                                                      GetAttestationResults(verdict))
         IN IF ~IsOk(verifiers) THEN verifiers
            ELSE Ok([peer_session_binding_verifiers |-> verifiers.val,
                     peer_attestation_verdict |-> verdict,
                     self_assertions |-> self.bindable_assertions,
                     attestation_binding_token |-> self.attestation_binding_token])

\* ServerAttestationHandler::take_attestation_state; the handler is consumed.
ServerTakeAttestationState(self) ==
    IF ~IsSome(self.attestation_result)
    THEN Err([msg |-> "attestation is not complete"])
    ELSE LET verdict == self.attestation_result.val
             verifiers == PeerSessionBindingVerifiers(self.config,
                                                      GetAttestationResults(verdict))
         IN IF ~IsOk(verifiers) THEN verifiers
            ELSE Ok([peer_session_binding_verifiers |-> verifiers.val,
                     peer_attestation_verdict |-> verdict,
                     self_assertions |-> self.bindable_assertions,
                     attestation_binding_token |-> self.attestation_binding_token])

(***************************************************************************)
(* The configurations handlers are created from, and the messages a peer   *)
(* may send.                                                               *)
(***************************************************************************)
Working(provider) == [verifier |-> "verifier", binding_verifier_provider |-> provider]

\* Attests itself under ID "a", asserts under "a" and "b", and verifies the
\* peer under "a" and "ab"; the binding verifier provider of "ab" fails.
ConfigBidirectional ==
    [self_attesters |-> (Id_a :> [fails |-> FALSE, evidence |-> "ev_ok"]),
     self_endorsers |-> (Id_a :> [fails |-> FALSE, endorsements |-> "endorsements"]),
     self_assertion_generators |->
         (Id_a :> [fails |-> FALSE, content |-> <<120>>])
             @@ (Id_b :> [fails |-> FALSE, content |-> <<>>]),
     peer_verifiers |->
         (Id_a :> Working("provider")) @@ (Id_ab :> Working("provider_failing")),
     attestation_results_aggregator |-> "default"]

\* Neither attests nor verifies.
ConfigUnattested ==
    [self_attesters |-> EmptyMap,
     self_endorsers |-> EmptyMap,
     self_assertion_generators |-> EmptyMap,
     peer_verifiers |-> EmptyMap,
     attestation_results_aggregator |-> "default"]

Configs == {ConfigBidirectional, ConfigUnattested}

Endorsed(evidence) == EndorsedEvidence(Some(evidence), Some("endorsements"))

\* Valid evidence for "a".
MsgValid ==
    [endorsed_evidence |-> (Id_a :> Endorsed("ev_ok")),
     assertions |-> (Id_a :> Assertion(<<120>>))]

\* Rejected evidence for "a", valid evidence for "ab" and "b".
MsgMixed ==
    [endorsed_evidence |->
         (Id_a :> Endorsed("ev_bad")) @@ (Id_ab :> Endorsed("ev_ok"))
             @@ (Id_b :> Endorsed("ev_ok")),
     assertions |-> (Id_b :> Assertion(<<121>>)) @@ (Id_ab :> Assertion(<<>>))]

\* Evidence for "a" on which the verifier itself fails; no assertions.
MsgGarbled ==
    [endorsed_evidence |-> (Id_a :> Endorsed("ev_garbled")),
     assertions |-> EmptyMap]

Messages == {MsgValid, MsgMixed, MsgGarbled}

Handlers == {"h1", "h2"}

(***************************************************************************)
(* The state machine: two handlers, each a client or a server, and the     *)
(* calls their owners make on them.  calls[h] records every call made on   *)
(* handler h: the operation, its argument, what it returned and the IDs    *)
(* whose verifier it invoked.                                              *)
(***************************************************************************)
IsClient(h) == "attest_request" \in DOMAIN handler[h]

IsServer(h) == "attest_response" \in DOMAIN handler[h]

Call(op, arg, ret, invoked) ==
    [op |-> op, arg |-> arg, ret |-> ret, invoked |-> invoked]

\* The get_outgoing_message and put_incoming_message calls made so far.
RECURSIVE EngineCalls(_)
EngineCalls(cs) ==
    IF cs = <<>> THEN 0
    ELSE (IF Head(cs).op = "take_attestation_state" THEN 0 ELSE 1) + EngineCalls(Tail(cs))

TotalCalls == EngineCalls(calls["h1"]) + EngineCalls(calls["h2"])

CreatedHandlers ==
    {ClientCreate(c).val : c \in {k \in Configs : IsOk(ClientCreate(k))}}
        \cup {ServerCreate(c).val : c \in {k \in Configs : IsOk(ServerCreate(k))}}

Init ==
    /\ handler \in [Handlers -> CreatedHandlers]
    /\ moved = [h \in Handlers |-> FALSE]
    /\ calls = [h \in Handlers |-> <<>>]
    /\ NoFunction /\ NoDb /\ NoSession

ClientGet(h) ==
    /\ IsClient(h) /\ ~moved[h] /\ TotalCalls < MaxCalls
    /\ LET r == ClientGetOutgoingMessage(handler[h])
       IN /\ handler' = [handler EXCEPT ![h] = r.self]
          /\ calls' = [calls EXCEPT
                          ![h] = Append(@, Call("get_outgoing_message", None, r.ret, <<>>))]
    /\ UNCHANGED moved
    /\ UNCHANGED <<functionVars, dbVars, sessionVars>>

ServerGet(h) ==
    /\ IsServer(h) /\ ~moved[h] /\ TotalCalls < MaxCalls
    /\ LET r == ServerGetOutgoingMessage(handler[h])
       IN /\ handler' = [handler EXCEPT ![h] = r.self]
          /\ calls' = [calls EXCEPT
                          ![h] = Append(@, Call("get_outgoing_message", None, r.ret, <<>>))]
    /\ UNCHANGED moved
    /\ UNCHANGED <<functionVars, dbVars, sessionVars>>

ClientPut(h, m) ==
    /\ IsClient(h) /\ ~moved[h] /\ TotalCalls < MaxCalls
    /\ LET r == ClientPutIncomingMessage(handler[h], m)
       IN /\ handler' = [handler EXCEPT ![h] = r.self]
          /\ calls' = [calls EXCEPT
                          ![h] = Append(@, Call("put_incoming_message", Some(m), r.ret,
                                                r.invoked))]
    /\ UNCHANGED moved
    /\ UNCHANGED <<functionVars, dbVars, sessionVars>>

ServerPut(h, m) ==
    /\ IsServer(h) /\ ~moved[h] /\ TotalCalls < MaxCalls
    /\ LET r == ServerPutIncomingMessage(handler[h], m)
       IN /\ handler' = [handler EXCEPT ![h] = r.self]
          /\ calls' = [calls EXCEPT
                          ![h] = Append(@, Call("put_incoming_message", Some(m), r.ret,
                                                r.invoked))]
    /\ UNCHANGED moved
    /\ UNCHANGED <<functionVars, dbVars, sessionVars>>

\* Variant of ClientTake: take_attestation_state borrows the handler
\* (&mut self), which stays usable.
ClientTakeBorrowing(h) ==
    /\ IsClient(h) /\ ~moved[h]
    /\ LET r == ClientTakeAttestationState(handler[h])
       IN calls' = [calls EXCEPT
                       ![h] = Append(@, Call("take_attestation_state", None, r, <<>>))]
    /\ handler' = [handler EXCEPT ![h].attestation_result = None]
    /\ UNCHANGED moved
    /\ UNCHANGED <<functionVars, dbVars, sessionVars>>

\* take_attestation_state takes the handler by value: whatever it returns,
\* the handler is gone afterwards.
ClientTake(h) ==
    /\ IsClient(h) /\ ~moved[h]
    /\ LET r == ClientTakeAttestationState(handler[h])
       IN calls' = [calls EXCEPT
                       ![h] = Append(@, Call("take_attestation_state", None, r, <<>>))]
    /\ handler' = [handler EXCEPT ![h].attestation_result = None]
    /\ moved' = [moved EXCEPT ![h] = TRUE]
    /\ UNCHANGED <<functionVars, dbVars, sessionVars>>

ServerTake(h) ==
    /\ IsServer(h) /\ ~moved[h]
    /\ LET r == ServerTakeAttestationState(handler[h])
       IN calls' = [calls EXCEPT
                       ![h] = Append(@, Call("take_attestation_state", None, r, <<>>))]
    /\ handler' = [handler EXCEPT ![h].attestation_result = None]
    /\ moved' = [moved EXCEPT ![h] = TRUE]
    /\ UNCHANGED <<functionVars, dbVars, sessionVars>>

Next ==
    \E h \in Handlers :
        \/ ClientGet(h)
        \/ ServerGet(h)
        \/ \E m \in Messages : ClientPut(h, m)
        \/ \E m \in Messages : ServerPut(h, m)
        \/ ClientTake(h)
        \/ ServerTake(h)

Spec == Init /\ [][Next]_vars

(***************************************************************************)
(* Vocabulary of the properties.                                           *)
(***************************************************************************)
IsGet(c) == c.op = "get_outgoing_message"

IsPut(c) == c.op = "put_incoming_message"

IsTake(c) == c.op = "take_attestation_state"

\* A put_incoming_message call that stored a verdict.
StoredVerdict(c) == IsPut(c) /\ c.ret = Ok(Some(Unit))

\* The message create pre-built for handler h.
PrebuiltMessage(h) ==
    IF IsClient(h) THEN ClientCreate(handler[h].config).val.attest_request
    ELSE ServerCreate(handler[h].config).val.attest_response

\* The outgoing message handler h still holds.
Outgoing(h) ==
    IF IsClient(h) THEN handler[h].attest_request ELSE handler[h].attest_response

SelfToken(h) == SerializeAssertions(AssertionsOf(handler[h].bindable_assertions))

\* This step is a call on handler h; NewCall(h) is its record.
Called(h) == Len(calls'[h]) = Len(calls[h]) + 1

NewCall(h) == calls'[h][Len(calls'[h])]

\* What one call appends to the binding token of h, as the code does it.
Segment(h, c) ==
    IF IsGet(c) THEN SelfToken(h)
    ELSE IF IsPut(c) THEN SerializeAssertions(c.arg.val.assertions)
    ELSE <<>>

\* The segments of the first n calls on h, in call order.
Transcript(h, n) == Concat([i \in 1..n |-> Segment(h, calls[h][i])])

\* The (operation, argument) sequence of the calls on h.
Driven(h) == [i \in 1..Len(calls[h]) |-> <<calls[h][i].op, calls[h][i].arg>>]

\* The messages handler h received, in order.
RECURSIVE Received(_)
Received(cs) ==
    IF cs = <<>> THEN <<>>
    ELSE (IF IsPut(Head(cs)) THEN <<Head(cs).arg.val>> ELSE <<>>) \o Received(Tail(cs))

\* Handler h was finalized successfully; Final(h) is its AttestationState.
Finalized(h) ==
    /\ calls[h] # <<>>
    /\ IsTake(calls[h][Len(calls[h])])
    /\ IsOk(calls[h][Len(calls[h])].ret)

Final(h) == calls[h][Len(calls[h])].ret.val

(***************************************************************************)
(* C1.  On every handler, client or server, the first get_outgoing_message *)
(* call returns Some(the message create pre-built) and every later one     *)
(* returns None, whatever put_incoming_message calls lie in between.       *)
(***************************************************************************)
\* C1: a get_outgoing_message call returns Some(the pre-built message) if no
\* get_outgoing_message call precedes it on its handler, and None otherwise.
C1_OutgoingExactlyOnce ==
    \A h \in Handlers : \A i \in 1..Len(calls[h]) :
        IsGet(calls[h][i]) =>
            IF \E j \in 1..(i - 1) : IsGet(calls[h][j])
            THEN calls[h][i].ret = Ok(None)
            ELSE calls[h][i].ret = Ok(PrebuiltMessage(h)) /\ IsSome(PrebuiltMessage(h))

\* A handler polled twice with an ingest in between.
C1_Witness ==
    \E h \in Handlers :
        /\ Len(calls[h]) >= 3
        /\ IsGet(calls[h][1]) /\ IsPut(calls[h][2]) /\ IsGet(calls[h][3])

FirstStored(h) ==
    IF \E i \in 1..Len(calls[h]) : StoredVerdict(calls[h][i])
    THEN CHOOSE i \in 1..Len(calls[h]) :
             /\ StoredVerdict(calls[h][i])
             /\ \A j \in 1..(i - 1) : ~StoredVerdict(calls[h][j])
    ELSE 0

\* The verdict of message m under the configuration of h.
VerdictOf(h, m) ==
    AggregateAttestationResults(
        handler[h].config.attestation_results_aggregator,
        CombineAttestationResults(handler[h].config.peer_verifiers,
                                  m.endorsed_evidence).result.val)

C3_TakeBeforeVerdictFails ==
    [][\A h \in Handlers :
          (Called(h) /\ IsTake(NewCall(h)) /\ ~IsSome(handler[h].attestation_result)) =>
              NewCall(h).ret = Err([msg |-> "attestation is not complete"])]_vars

\* Finalization was tried on a handler that had emitted its message and had
\* been given a message, but held no verdict.
C3_Witness ==
    \E h \in Handlers :
        /\ Len(calls[h]) = 3
        /\ IsGet(calls[h][1])
        /\ IsPut(calls[h][2]) /\ ~IsOk(calls[h][2].ret)
        /\ IsTake(calls[h][3]) /\ ~IsOk(calls[h][3].ret)

(***************************************************************************)
(* C4.  take_attestation_state succeeds only if get_outgoing_message and   *)
(* put_incoming_message were both called before, in either order.          *)
(***************************************************************************)
\* C4 as stated: a successful take_attestation_state was preceded by a
\* get_outgoing_message call and by a put_incoming_message call.
C4_AsStated ==
    \A h \in Handlers :
        Finalized(h) =>
            /\ \E i \in 1..Len(calls[h]) : IsGet(calls[h][i])
            /\ \E i \in 1..Len(calls[h]) : IsPut(calls[h][i])

\* C4 as amended: take_attestation_state succeeds only if an earlier
\* put_incoming_message stored a verdict; get_outgoing_message need not have
\* been called, and may come before or after the put_incoming_message.
C4_TakeNeedsVerdict ==
    \A h \in Handlers :
        Finalized(h) => \E i \in 1..Len(calls[h]) : StoredVerdict(calls[h][i])

\* A handler finalized successfully after ingest then emit.
C4_Witness ==
    \E h \in Handlers :
        /\ Finalized(h)
        /\ Len(calls[h]) = 3
        /\ IsPut(calls[h][1]) /\ IsGet(calls[h][2])

(***************************************************************************)
(* C5.  take_attestation_state consumes the handler, whether it succeeds   *)
(* or fails: it is called at most once on a handler, no call follows it,   *)
(* and so a handler yields at most one AttestationState.                   *)
(***************************************************************************)
\* C5: a take_attestation_state call is the last call on its handler, the
\* handler is moved exactly when it was made, and at most one call on a
\* handler returned an AttestationState.
C5_TakeConsumesHandler ==
    \A h \in Handlers :
        /\ \A i \in 1..Len(calls[h]) : IsTake(calls[h][i]) => i = Len(calls[h])
        /\ moved[h] <=> (calls[h] # <<>> /\ IsTake(calls[h][Len(calls[h])]))
        /\ Cardinality({i \in 1..Len(calls[h]) :
                            IsTake(calls[h][i]) /\ IsOk(calls[h][i].ret)}) <= 1

\* A failed finalization has consumed a handler while calls remained.
C5_Witness ==
    \E h \in Handlers :
        /\ moved[h]
        /\ ~IsOk(calls[h][Len(calls[h])].ret)
        /\ TotalCalls < MaxCalls

(***************************************************************************)
(* C6.  In every AttestationState the binding token is                     *)
(* serialize(self_assertions) followed by serialize(the peer's assertions  *)
(* as received), whatever get_outgoing_message / put_incoming_message      *)
(* calls came before.                                                      *)
(***************************************************************************)
\* C6 as stated: the token of every AttestationState is serialize(self)
\* followed by serialize of the assertions of a message the handler received.
C6_AsStated ==
    \A h \in Handlers :
        Finalized(h) =>
            \E i \in 1..Len(calls[h]) :
                /\ IsPut(calls[h][i])
                /\ Final(h).attestation_binding_token =
                       SerializeAssertions(AssertionsOf(Final(h).self_assertions))
                           \o SerializeAssertions(calls[h][i].arg.val.assertions)

\* C6 as amended: the token is the concatenation, in call order, of
\* serialize(self_assertions) for every get_outgoing_message call and of
\* serialize(msg.assertions) for every put_incoming_message call; it is
\* self then peer when the calls were one emit followed by one ingest.
C6_TokenIsTranscript ==
    \A h \in Handlers :
        Finalized(h) =>
            /\ Final(h).attestation_binding_token = Transcript(h, Len(calls[h]) - 1)
            /\ (Len(calls[h]) = 3 /\ IsGet(calls[h][1]) /\ IsPut(calls[h][2])) =>
                   Final(h).attestation_binding_token =
                       SerializeAssertions(AssertionsOf(Final(h).self_assertions))
                           \o SerializeAssertions(calls[h][2].arg.val.assertions)

\* A handler with assertions of its own, finalized after two polls and an
\* ingest of a message with assertions.
C6_Witness ==
    \E h \in Handlers :
        /\ Finalized(h)
        /\ Len(calls[h]) = 4
        /\ IsGet(calls[h][1]) /\ IsGet(calls[h][2]) /\ IsPut(calls[h][3])
        /\ SelfToken(h) # <<>>
        /\ SerializeAssertions(calls[h][3].arg.val.assertions) # <<>>

(***************************************************************************)
(* C7.  get_outgoing_message appends serialize(self_assertions) to the     *)
(* binding token on the call that returns Some; a call that returns None   *)
(* leaves the token unchanged.                                             *)
(***************************************************************************)
\* C7 as stated: a get_outgoing_message step extends the token by
\* serialize(self_assertions) if it returns Some and leaves it unchanged if it
\* returns None.
C7_AsStated ==
    [][\A h \in Handlers :
          (Called(h) /\ IsGet(NewCall(h))) =>
              handler'[h].attestation_binding_token =
                  IF IsSome(NewCall(h).ret.val)
                  THEN handler[h].attestation_binding_token \o SelfToken(h)
                  ELSE handler[h].attestation_binding_token]_vars

EmitIngestPair(h1, h2) ==
    /\ IsClient(h1) = IsClient(h2)
    /\ handler[h1].config = handler[h2].config
    /\ ~moved[h1] /\ ~moved[h2]
    /\ Len(calls[h1]) = 2 /\ Len(calls[h2]) = 2
    /\ IsGet(calls[h1][1]) /\ IsPut(calls[h1][2])
    /\ IsPut(calls[h2][1]) /\ IsGet(calls[h2][2])
    /\ calls[h1][2].arg = calls[h2][1].arg

\* C9 as stated: the two orders return the same results and leave equal
\* handlers.
C9_AsStated ==
    \A h1, h2 \in Handlers :
        EmitIngestPair(h1, h2) =>
            /\ calls[h1][1].ret = calls[h2][2].ret
            /\ calls[h1][2].ret = calls[h2][1].ret
            /\ handler[h1] = handler[h2]

\* C9 as amended: the results, the remaining outgoing message and the verdict
\* are the same; the binding tokens are self then m and m then self.
C9_CommuteUpToToken ==
    \A h1, h2 \in Handlers :
        EmitIngestPair(h1, h2) =>
            LET peer == SerializeAssertions(calls[h1][2].arg.val.assertions)
            IN /\ calls[h1][1].ret = calls[h2][2].ret
               /\ calls[h1][2].ret = calls[h2][1].ret
               /\ calls[h1][2].invoked = calls[h2][1].invoked
               /\ Outgoing(h1) = Outgoing(h2)
               /\ handler[h1].attestation_result = handler[h2].attestation_result
               /\ handler[h1].attestation_binding_token = SelfToken(h1) \o peer
               /\ handler[h2].attestation_binding_token = peer \o SelfToken(h2)

\* Such a pair whose tokens differ, with a verdict stored.
C9_Witness ==
    \E h1, h2 \in Handlers :
        /\ EmitIngestPair(h1, h2)
        /\ IsSome(handler[h1].attestation_result)
        /\ handler[h1].attestation_binding_token # handler[h2].attestation_binding_token

(***************************************************************************)
(* C10.  Two handlers created with identical configurations that receive   *)
(* identical peer messages end with byte-equal binding tokens.             *)
(***************************************************************************)
\* C10 as stated: equal configurations and equal received messages give equal
\* final binding tokens.
C10_AsStated ==
    \A h1, h2 \in Handlers :
        (/\ Finalized(h1) /\ Finalized(h2)
         /\ handler[h1].config = handler[h2].config
         /\ Received(calls[h1]) = Received(calls[h2])) =>
            Final(h1).attestation_binding_token = Final(h2).attestation_binding_token

\* C10 as amended: equal configurations and the same calls with the same
\* messages in the same order give equal final binding tokens, on clients
\* and servers alike.
C10_SameCallsSameToken ==
    \A h1, h2 \in Handlers :
        (/\ Finalized(h1) /\ Finalized(h2)
         /\ handler[h1].config = handler[h2].config
         /\ Driven(h1) = Driven(h2)) =>
            Final(h1).attestation_binding_token = Final(h2).attestation_binding_token

\* A client and a server of one configuration, both finalized after the
\* same emit and ingest, with a token that is not empty.
C10_Witness ==
    \E h1, h2 \in Handlers :
        /\ IsClient(h1) /\ IsServer(h2)
        /\ Finalized(h1) /\ Finalized(h2)
        /\ handler[h1].config = handler[h2].config
        /\ Driven(h1) = Driven(h2)
        /\ Len(calls[h1]) = 3
        /\ SelfToken(h1) # <<>>
        /\ Final(h1).attestation_binding_token # SelfToken(h1)

(***************************************************************************)
(* The handshake between a client h1 and a server h2 over a channel that   *)
(* delivers messages unmodified: what a handler ingests is a message its   *)
(* peer handed out.                                                        *)
(***************************************************************************)
\* Attests nothing, asserts under "ab" and verifies the peer under "a".
ConfigAsserting ==
    [self_attesters |-> EmptyMap,
     self_endorsers |-> EmptyMap,
     self_assertion_generators |-> (Id_ab :> [fails |-> FALSE, content |-> <<121>>]),
     peer_verifiers |-> (Id_a :> Working("provider")),
     attestation_results_aggregator |-> "default"]

HandshakeConfigs == Configs \cup {ConfigAsserting}

\* The messages handler h has handed out.
Sent(h) ==
    {calls[h][i].ret.val.val :
        i \in {j \in 1..Len(calls[h]) : IsGet(calls[h][j]) /\ IsSome(calls[h][j].ret.val)}}

InitHandshake ==
    /\ handler \in {f \in [Handlers -> UNION {{ClientCreate(c).val, ServerCreate(c).val} :
                                                c \in HandshakeConfigs}] :
                        "attest_request" \in DOMAIN f["h1"]
                            /\ "attest_response" \in DOMAIN f["h2"]}
    /\ moved = [h \in Handlers |-> FALSE]
    /\ calls = [h \in Handlers |-> <<>>]
    /\ NoFunction /\ NoDb /\ NoSession

NextHandshake ==
    \/ ClientGet("h1")
    \/ ServerGet("h2")
    \/ \E m \in Sent("h2") : ClientPut("h1", m)
    \/ \E m \in Sent("h1") : ServerPut("h2", m)
    \/ ClientTake("h1")
    \/ ServerTake("h2")

SpecHandshake == InitHandshake /\ [][NextHandshake]_vars

\* The client emitted its request and then ingested the response; the server
\* ingested the request and then emitted its response; nothing else was
\* called on either before finalization.
CanonicalHandshake ==
    /\ EngineCalls(calls["h1"]) = 2 /\ EngineCalls(calls["h2"]) = 2
    /\ IsGet(calls["h1"][1]) /\ IsPut(calls["h1"][2])
    /\ IsPut(calls["h2"][1]) /\ IsGet(calls["h2"][2])

(***************************************************************************)
(* C11.  After the canonical handshake with unmodified delivery both       *)
(* binding tokens are the client's serialized assertions followed by the   *)
(* server's.                                                               *)
(***************************************************************************)
\* C11: when the client has done get then put(response) and the server
\* put(request) then get, the tokens of both handlers, and of both
\* AttestationStates once taken, equal serialize(client assertions) followed
\* by serialize(server assertions).
C11_HandshakeTokensEqual ==
    CanonicalHandshake =>
        LET expected == SelfToken("h1") \o SelfToken("h2")
        IN /\ handler["h1"].attestation_binding_token = expected
           /\ handler["h2"].attestation_binding_token = expected
           /\ \A h \in Handlers :
                  Finalized(h) => Final(h).attestation_binding_token = expected

\* Both sides finalized after a canonical handshake in which each side
\* asserted something the other did not.
C11_Witness ==
    /\ CanonicalHandshake
    /\ Finalized("h1") /\ Finalized("h2")
    /\ SelfToken("h1") # <<>> /\ SelfToken("h2") # <<>>
    /\ SelfToken("h1") # SelfToken("h2")
    /\ Final("h1").attestation_binding_token = Final("h2").attestation_binding_token

(***************************************************************************)
(* The handshake over a channel that may replace the assertions of a       *)
(* message in flight: a client h1 and a server h2 that only assert, and    *)
(* messages carrying any of the assertion maps below.                      *)
(***************************************************************************)
\* The assertion maps over the IDs "a" and "b"; the content of the last one
\* contains the bytes "|", encode("b"), ":".
AssertionMaps ==
    {EmptyMap,
     Id_a :> Assertion(<<120>>),
     Id_b :> Assertion(<<121>>),
     (Id_a :> Assertion(<<120>>)) @@ (Id_b :> Assertion(<<121>>)),
     Id_a :> Assertion(<<120, Pipe>> \o EncodeToVec(Id_b) \o <<Colon, 121>>)}

\* A configuration that asserts `assertions` and neither attests nor verifies.
ConfigOnlyAsserting(assertions) ==
    [self_attesters |-> EmptyMap,
     self_endorsers |-> EmptyMap,
     self_assertion_generators |->
         [id \in DOMAIN assertions |-> [fails |-> FALSE, content |-> assertions[id].content]],
     peer_verifiers |-> EmptyMap,
     attestation_results_aggregator |-> "default"]

\* A message without evidence that carries `assertions`.
MsgOnlyAsserting(assertions) ==
    [endorsed_evidence |-> EmptyMap, assertions |-> assertions]

InitBinding ==
    /\ \E c, s \in AssertionMaps :
           handler = ("h1" :> ClientCreate(ConfigOnlyAsserting(c)).val)
                         @@ ("h2" :> ServerCreate(ConfigOnlyAsserting(s)).val)
    /\ moved = [h \in Handlers |-> FALSE]
    /\ calls = [h \in Handlers |-> <<>>]
    /\ NoFunction /\ NoDb /\ NoSession

\* The canonical call order on both sides; what arrives is any message.
NextBinding ==
    \/ calls["h1"] = <<>> /\ ClientGet("h1")
    \/ Len(calls["h1"]) = 1 /\ \E a \in AssertionMaps : ClientPut("h1", MsgOnlyAsserting(a))
    \/ calls["h2"] = <<>> /\ \E a \in AssertionMaps : ServerPut("h2", MsgOnlyAsserting(a))
    \/ Len(calls["h2"]) = 1 /\ ServerGet("h2")

SpecBinding == InitBinding /\ [][NextBinding]_vars

(***************************************************************************)
(* C12.  Equal binding tokens imply that each side received the assertion  *)
(* map the other sent; serialize_assertions is injective.                  *)
(***************************************************************************)
\* C12 as stated: after the canonical call order, if the two tokens are equal
\* then the map each side received is the map the other side asserts; and
\* the serialization of one received map (the server's token after its first
\* call) is the serialization of no other assertion map.
C12_AsStated ==
    /\ (CanonicalHandshake
           /\ handler["h1"].attestation_binding_token
                  = handler["h2"].attestation_binding_token)
          => /\ calls["h1"][2].arg.val.assertions = AssertionsOf(handler["h2"].bindable_assertions)
             /\ calls["h2"][1].arg.val.assertions = AssertionsOf(handler["h1"].bindable_assertions)
    /\ Len(calls["h2"]) = 1
          => \A a \in AssertionMaps :
                 SerializeAssertions(a) = handler["h2"].attestation_binding_token
                     => a = calls["h2"][1].arg.val.assertions

(***************************************************************************)
(* serialize_assertions on its own: a client and a server whose assertion  *)
(* maps hold the same entries, inserted in opposite orders, each asked for *)
(* its outgoing message once.                                              *)
(***************************************************************************)
\* The IDs and contents of the serialized maps; the empty string is an ID.
SerializeIds == {<<>>, Id_a, Id_ab, Id_b}

SerializeContents == {<<>>, <<120>>}

\* BTreeMap::insert
Insert(m, id, v) == [k \in DOMAIN m \cup {id} |-> IF k = id THEN v ELSE m[k]]

\* The map that results from inserting the (id, content) pairs of ins in order.
RECURSIVE FromInsertions(_)
FromInsertions(ins) ==
    IF ins = <<>> THEN EmptyMap
    ELSE Insert(FromInsertions(SubSeq(ins, 1, Len(ins) - 1)),
                ins[Len(ins)][1], Assertion(ins[Len(ins)][2]))

Reverse(seq) == [i \in 1..Len(seq) |-> seq[Len(seq) + 1 - i]]

\* Every sequence of insertions with pairwise different IDs.
Insertions ==
    {ins \in UNION {[1..n -> SerializeIds \X SerializeContents] :
                        n \in 0..Cardinality(SerializeIds)} :
        \A i, j \in 1..Len(ins) : i # j => ins[i][1] # ins[j][1]}

InitSerialize ==
    /\ \E ins \in Insertions :
           handler = ("h1" :> ClientCreate(ConfigOnlyAsserting(FromInsertions(ins))).val)
                         @@ ("h2" :> ServerCreate(
                                         ConfigOnlyAsserting(FromInsertions(Reverse(ins)))).val)
    /\ moved = [h \in Handlers |-> FALSE]
    /\ calls = [h \in Handlers |-> <<>>]
    /\ NoFunction /\ NoDb /\ NoSession

NextSerialize ==
    \/ calls["h1"] = <<>> /\ ClientGet("h1")
    \/ calls["h2"] = <<>> /\ ServerGet("h2")

SpecSerialize == InitSerialize /\ [][NextSerialize]_vars

\* The arrangements of the IDs in S in strictly ascending order.
Ascending(S) ==
    {ord \in [1..Cardinality(S) -> S] :
        \A i, j \in 1..Cardinality(S) : i < j => StrLess(ord[i], ord[j])}

(***************************************************************************)
(* C13.  The format of serialize_assertions.                               *)
(***************************************************************************)
\* C13: the token of a handler after its first get_outgoing_message, which is
\* serialize_assertions of its assertion map, is the concatenation over the
\* IDs in ascending order of encode(ID), ':', content, '|'; it is empty for
\* the empty map; and it is the same for the same entries inserted in the
\* opposite order.
C13_SerializeFormat ==
    /\ \A h \in Handlers :
          calls[h] # <<>> =>
              LET m == AssertionsOf(handler[h].bindable_assertions)
                  token == handler[h].attestation_binding_token
              IN /\ Cardinality(Ascending(DOMAIN m)) = 1
                 /\ \A ord \in Ascending(DOMAIN m) :
                        token = Concat([i \in 1..Len(ord) |->
                                           EncodeToVec(ord[i]) \o <<Colon>>
                                               \o m[ord[i]].content \o <<Pipe>>])
                 /\ (m = EmptyMap => token = <<>>)
    /\ (calls["h1"] # <<>> /\ calls["h2"] # <<>>)
          => handler["h1"].attestation_binding_token
                 = handler["h2"].attestation_binding_token

\* Both handlers serialized a map of three entries, among them "a", "ab" and
\* "b", which were inserted in the order "b", "ab", "a" on one side.
C13_Witness ==
    /\ calls["h1"] # <<>> /\ calls["h2"] # <<>>
    /\ {Id_a, Id_ab, Id_b} \subseteq DOMAIN handler["h1"].bindable_assertions
    /\ handler["h1"].attestation_binding_token
           = <<10, 1, 97, Colon, 120, Pipe, 10, 2, 97, 98, Colon, Pipe,
               10, 1, 98, Colon, 120, Pipe>>

(***************************************************************************)
(* One handler h1, a client or a server, that verifies its peer under any  *)
(* verifier map over three IDs, ingests at most one message, with any      *)
(* endorsed-evidence map over the same IDs, and is finalized at any time.  *)
(***************************************************************************)
IngestIds == {Id_a, Id_ab, Id_b}

\* What a peer may send for one ID: evidence the verifier accepts, rejects,
\* gives no status for or fails on, and evidence or endorsements left out.
EvidenceForms ==
    {Endorsed("ev_ok"), Endorsed("ev_bad"), Endorsed("ev_unspecified"),
     Endorsed("ev_garbled"),
     EndorsedEvidence(Some("ev_ok"), None),
     EndorsedEvidence(None, Some("endorsements")),
     EndorsedEvidence(None, None)}

EvidenceMaps == UNION {[S -> EvidenceForms] : S \in SUBSET IngestIds}

VerifierMaps ==
    UNION {[S -> {Working("provider"), Working("provider_failing")}] :
              S \in SUBSET IngestIds}

\* A configuration that verifies the peer with `verifiers` and nothing else.
ConfigVerifying(verifiers) ==
    [self_attesters |-> EmptyMap,
     self_endorsers |-> EmptyMap,
     self_assertion_generators |-> EmptyMap,
     peer_verifiers |-> verifiers,
     attestation_results_aggregator |-> "default"]

\* A message without assertions that carries `endorsed_evidence`.
MsgAttesting(endorsed_evidence) ==
    [endorsed_evidence |-> endorsed_evidence, assertions |-> EmptyMap]

InitIngest ==
    /\ \E v \in VerifierMaps :
           \/ handler = ("h1" :> ClientCreate(ConfigVerifying(v)).val)
                            @@ ("h2" :> ServerCreate(ConfigUnattested).val)
           \/ handler = ("h1" :> ServerCreate(ConfigVerifying(v)).val)
                            @@ ("h2" :> ClientCreate(ConfigUnattested).val)
    /\ moved = [h \in Handlers |-> FALSE]
    /\ calls = [h \in Handlers |-> <<>>]
    /\ NoFunction /\ NoDb /\ NoSession

NextIngest ==
    \/ calls["h1"] = <<>> /\ \E ee \in EvidenceMaps : ClientPut("h1", MsgAttesting(ee))
    \/ calls["h1"] = <<>> /\ \E ee \in EvidenceMaps : ServerPut("h1", MsgAttesting(ee))
    \/ ClientTake("h1")
    \/ ServerTake("h1")

SpecIngest == InitIngest /\ [][NextIngest]_vars

\* h1 has ingested a message: V and E are the two maps that were joined and
\* Joined is what combine_attestation_results makes of them.
Ingested == calls["h1"] # <<>> /\ IsPut(calls["h1"][1])

V == handler["h1"].config.peer_verifiers

E == calls["h1"][1].arg.val.endorsed_evidence

Joined == CombineAttestationResults(V, E)

Invoked == {calls["h1"][1].invoked[i] : i \in 1..Len(calls["h1"][1].invoked)}

\* Whether the received entry for id carries both evidence and endorsements.
Complete(id) == IsSome(E[id].evidence) /\ IsSome(E[id].endorsements)

C16_IncompleteEvidenceFails ==
    Ingested =>
        \A id \in DOMAIN V \cap DOMAIN E :
            ~Complete(id) =>
                /\ id \notin Invoked
                /\ IsOk(Joined.result) =>
                      /\ Joined.result.val[id].kind = "Failure"
                      /\ Joined.result.val[id].result =
                             [status |-> "GenericFailure",
                              reason |-> "Both evidence and endorsements need to be provided"]

\* A result map in which one ID came without endorsements and another
\* without evidence, next to one that was verified.
C16_Witness ==
    /\ Ingested
    /\ IsOk(Joined.result)
    /\ DOMAIN V = IngestIds
    /\ DOMAIN E = IngestIds
    /\ IsSome(E[Id_a].evidence) /\ ~IsSome(E[Id_a].endorsements)
    /\ ~IsSome(E[Id_ab].evidence) /\ IsSome(E[Id_ab].endorsements)
    /\ Invoked = {Id_b}
    /\ Joined.result.val[Id_a].kind = "Failure"
    /\ Joined.result.val[Id_ab].kind = "Failure"

\* The IDs with a Success entry in a result map.
SuccessIds(results) == {id \in DOMAIN results : results[id].kind = "Success"}

(***************************************************************************)
(* C17.  Binding verifiers exist for Success IDs only.                     *)
(***************************************************************************)
\* C17: in the AttestationState of a finalized handler every ID of
\* peer_session_binding_verifiers has a Success entry in the results of
\* peer_attestation_verdict, whether the verdict is AttestationPassed or
\* AttestationFailed, and its binding verifier was made from that entry.
C17_BindingVerifiersOnlyForSuccess ==
    Finalized("h1") =>
        LET results == GetAttestationResults(Final("h1").peer_attestation_verdict)
            bvs == Final("h1").peer_session_binding_verifiers
        IN \A id \in DOMAIN bvs :
               /\ id \in SuccessIds(results)
               /\ bvs[id] = CreateSessionBindingVerifier(
                                V[id].binding_verifier_provider, results[id].result).val

\* A failed attestation with a Success, a Failure and an Unverified entry,
\* finalized with a binding verifier for the Success ID alone.
C17_Witness ==
    /\ Finalized("h1")
    /\ Final("h1").peer_attestation_verdict.verdict = "AttestationFailed"
    /\ LET results == GetAttestationResults(Final("h1").peer_attestation_verdict)
       IN /\ DOMAIN results = IngestIds
          /\ results[Id_a].kind = "Success"
          /\ results[Id_ab].kind = "Failure"
          /\ results[Id_b].kind = "Unverified"
    /\ DOMAIN Final("h1").peer_session_binding_verifiers = {Id_a}

(***************************************************************************)
(* C18.  A failing binding verifier provider fails the finalization.       *)
(***************************************************************************)
\* C18: a take_attestation_state call on a handler whose stored verdict has a
\* Success ID with a failing binding_verifier_provider returns the provider's
\* error, hence no AttestationState, and consumes the handler; a consumed
\* handler has take_attestation_state as its last call and no call after it.
C18_ProviderFailureFailsTake ==
    /\ [][(Called("h1") /\ IsTake(NewCall("h1"))
              /\ IsSome(handler["h1"].attestation_result)
              /\ \E id \in SuccessIds(GetAttestationResults(
                                          handler["h1"].attestation_result.val)) :
                     V[id].binding_verifier_provider = "provider_failing")
             => /\ NewCall("h1").ret = Err([msg |-> "binding verifier provider error"])
                /\ moved'["h1"]]_vars
    /\ [](moved["h1"] =>
             /\ IsTake(calls["h1"][Len(calls["h1"])])
             /\ \A i \in 1..(Len(calls["h1"]) - 1) : ~IsTake(calls["h1"][i]))

\* A handler consumed by a take that failed on the provider of one Success
\* ID while the provider of another Success ID works.
C18_Witness ==
    /\ moved["h1"]
    /\ Ingested
    /\ Len(calls["h1"]) = 2
    /\ calls["h1"][2].ret = Err([msg |-> "binding verifier provider error"])
    /\ IsOk(Joined.result)
    /\ SuccessIds(Joined.result.val) = {Id_a, Id_b}
    /\ V[Id_a].binding_verifier_provider = "provider"
    /\ V[Id_b].binding_verifier_provider = "provider_failing"

\* The verdict h1 holds after the ingest and before it is finalized.
Stored == handler["h1"].attestation_result

(***************************************************************************)
(* C19.  The policy of the default aggregator.                             *)
(***************************************************************************)
\* C19: when an ingest produced a result map, the verdict it stored carries
\* that map and is AttestationPassed if and only if the map has at least one
\* Success and no Failure, and AttestationFailed otherwise; so Missing and
\* Unverified entries beside a Success leave it passed and one Failure fails
\* it.
C19_DefaultAggregatorPolicy ==
    (Ingested /\ Len(calls["h1"]) = 1 /\ IsOk(Joined.result)) =>
        LET results == Joined.result.val
            passes == /\ SuccessIds(results) # {}
                      /\ \A id \in DOMAIN results : results[id].kind # "Failure"
        IN /\ IsSome(Stored)
           /\ GetAttestationResults(Stored.val) = results
           /\ Stored.val.verdict = IF passes THEN "AttestationPassed"
                                    ELSE "AttestationFailed"

\* A passed verdict over a Missing, a Success and an Unverified entry.
C19_Witness ==
    /\ Ingested /\ Len(calls["h1"]) = 1 /\ IsOk(Joined.result)
    /\ IsSome(Stored)
    /\ Stored.val.verdict = "AttestationPassed"
    /\ DOMAIN Joined.result.val = IngestIds
    /\ Joined.result.val[Id_a].kind = "Missing"
    /\ Joined.result.val[Id_ab].kind = "Success"
    /\ Joined.result.val[Id_b].kind = "Unverified"

(***************************************************************************)
(* C20.  Two unattested sides.                                             *)
(***************************************************************************)
\* Both sides are configured with no attesters, assertion generators or peer
\* verifiers, and handler h has ingested its peer's message and still holds
\* the verdict.
UnattestedExchange(h) ==
    /\ \A k \in Handlers : handler[k].config = ConfigUnattested
    /\ \E i \in 1..Len(calls[h]) : IsPut(calls[h][i])
    /\ ~moved[h]

Verified(id) == Verify(V[id].verifier, E[id].evidence.val, E[id].endorsements.val)

\* The IDs on which the verifier itself returns an error.
VerifierErrors == {id \in DOMAIN V \cap DOMAIN E : Complete(id) /\ ~IsOk(Verified(id))}

\* The IDs whose verification does not succeed: an incomplete entry, an
\* error of the verifier, or a status other than Success.
NotSuccessful ==
    {id \in DOMAIN V \cap DOMAIN E :
        ~Complete(id) \/ ~IsOk(Verified(id)) \/ Verified(id).val.status # "Success"}

CreateIds == {Id_a, Id_b}

Attesters == {[fails |-> FALSE, evidence |-> "ev_ok"], [fails |-> TRUE, evidence |-> "ev_ok"]}

Endorsers ==
    {[fails |-> FALSE, endorsements |-> "endorsements"],
     [fails |-> TRUE, endorsements |-> "endorsements"]}

Generators == {[fails |-> FALSE, content |-> <<120>>], [fails |-> TRUE, content |-> <<120>>]}

PartialMaps(values) == UNION {[S -> values] : S \in SUBSET CreateIds}

CreateConfigs ==
    {[self_attesters |-> a,
      self_endorsers |-> n,
      self_assertion_generators |-> g,
      peer_verifiers |-> EmptyMap,
      attestation_results_aggregator |-> "default"] :
        a \in PartialMaps(Attesters), n \in PartialMaps(Endorsers),
        g \in PartialMaps(Generators)}

\* The quote and endorse calls of create over the attesters ids, in order,
\* up to the first one that fails.
RECURSIVE AttestInvocations(_, _)
AttestInvocations(config, ids) ==
    IF ids = <<>> THEN <<>>
    ELSE LET id == Head(ids)
             evidence == Quote(config.self_attesters[id])
         IN IF ~IsOk(evidence) THEN << <<"quote", id>> >>
            ELSE IF id \in DOMAIN config.self_endorsers
                 THEN IF ~IsOk(Endorse(config.self_endorsers[id], evidence.val))
                      THEN << <<"quote", id>>, <<"endorse", id>> >>
                      ELSE << <<"quote", id>>, <<"endorse", id>> >>
                               \o AttestInvocations(config, Tail(ids))
                 ELSE << <<"quote", id>> >> \o AttestInvocations(config, Tail(ids))

\* The generate calls of create over the generators ids, in order, up to the
\* first one that fails.
RECURSIVE GenerateInvocations(_, _)
GenerateInvocations(config, ids) ==
    IF ids = <<>> THEN <<>>
    ELSE IF ~IsOk(Generate(config.self_assertion_generators[Head(ids)]))
         THEN << <<"generate", Head(ids)>> >>
         ELSE << <<"generate", Head(ids)>> >> \o GenerateInvocations(config, Tail(ids))

\* Every call create makes on the configured objects, in order.
CreateInvocations(config) ==
    GenerateInvocations(config, SortedKeys(DOMAIN config.self_assertion_generators))
        \o (IF IsOk(CreateBindableAssertions(config))
            THEN AttestInvocations(config, SortedKeys(DOMAIN config.self_attesters))
            ELSE <<>>)

Pending(h) == DOMAIN handler[h] = {"pending"}

InitCreate ==
    /\ \E c \in CreateConfigs : handler = [h \in Handlers |-> [pending |-> c]]
    /\ moved = [h \in Handlers |-> FALSE]
    /\ calls = [h \in Handlers |-> <<>>]
    /\ NoFunction /\ NoDb /\ NoSession

\* ClientAttestationHandler::create(config)
CreateClient(h) ==
    /\ Pending(h)
    /\ LET config == handler[h].pending
           r == ClientCreate(config)
       IN /\ handler' = [handler EXCEPT ![h] = IF IsOk(r) THEN r.val ELSE [failed |-> r.err]]
          /\ calls' = [calls EXCEPT
                          ![h] = Append(@, Call("create", Some(config),
                                                IF IsOk(r) THEN Ok(Unit) ELSE r,
                                                CreateInvocations(config)))]
    /\ UNCHANGED moved
    /\ UNCHANGED <<functionVars, dbVars, sessionVars>>

\* ServerAttestationHandler::create(config)
CreateServer(h) ==
    /\ Pending(h)
    /\ LET config == handler[h].pending
           r == ServerCreate(config)
       IN /\ handler' = [handler EXCEPT ![h] = IF IsOk(r) THEN r.val ELSE [failed |-> r.err]]
          /\ calls' = [calls EXCEPT
                          ![h] = Append(@, Call("create", Some(config),
                                                IF IsOk(r) THEN Ok(Unit) ELSE r,
                                                CreateInvocations(config)))]
    /\ UNCHANGED moved
    /\ UNCHANGED <<functionVars, dbVars, sessionVars>>

NextCreate ==
    \/ CreateClient("h1")
    \/ CreateServer("h2")
    \/ Len(calls["h1"]) = 1 /\ ClientGet("h1")
    \/ Len(calls["h2"]) = 1 /\ ServerGet("h2")

SpecCreate == InitCreate /\ [][NextCreate]_vars

\* create was called for h; CreateConfig(h) is the configuration it was given.
CreateCalled(h) == calls[h] # <<>>

CreateConfig(h) == calls[h][1].arg.val

(***************************************************************************)
(* C23.  What makes create fail.                                           *)
(***************************************************************************)
\* C23: create returns an error, and leaves no handler, exactly when an
\* assertion generator fails, an attester's quote fails, or an endorser under
\* the ID of an attester fails; an endorser under an ID without attester is
\* never invoked, and a successful create leaves a handler.
C23_CreateFailures ==
    \A h \in Handlers :
        CreateCalled(h) =>
            LET config == CreateConfig(h)
                fatal ==
                    \/ \E id \in DOMAIN config.self_assertion_generators :
                           config.self_assertion_generators[id].fails
                    \/ \E id \in DOMAIN config.self_attesters :
                           config.self_attesters[id].fails
                    \/ \E id \in DOMAIN config.self_attesters \cap DOMAIN config.self_endorsers :
                           config.self_endorsers[id].fails
            IN /\ fatal <=> ~IsOk(calls[h][1].ret)
               /\ fatal <=> ~(IsClient(h) \/ IsServer(h))
               /\ \A i \in 1..Len(calls[h][1].invoked) :
                      calls[h][1].invoked[i][1] = "endorse"
                          => calls[h][1].invoked[i][2] \in DOMAIN config.self_attesters

\* A create that succeeded although the endorser under "b", an ID without
\* attester, fails; the endorser under "a" was invoked.
C23_Witness ==
    \E h \in Handlers :
        /\ CreateCalled(h)
        /\ IsOk(calls[h][1].ret)
        /\ DOMAIN CreateConfig(h).self_attesters = {Id_a}
        /\ DOMAIN CreateConfig(h).self_endorsers = {Id_a, Id_b}
        /\ CreateConfig(h).self_endorsers[Id_b].fails
        /\ calls[h][1].invoked[Len(calls[h][1].invoked)] = <<"endorse", Id_a>>

\* Handler h was created and has handed out its message, OutgoingMessage(h).
Emitted(h) == Len(calls[h]) = 2 /\ IsGet(calls[h][2]) /\ IsSome(calls[h][2].ret.val)

OutgoingMessage(h) == calls[h][2].ret.val.val

(***************************************************************************)
(* C24.  The outgoing message create builds.                               *)
(***************************************************************************)
\* C24: the message a created handler hands out has an endorsed_evidence
\* entry for exactly the IDs of self_attesters and an assertion for exactly
\* the IDs of self_assertion_generators; every entry has the evidence its
\* attester quoted, and has endorsements, those of the endorser, exactly when
\* an endorser is registered under its ID.
C24_OutgoingMessageShape ==
    \A h \in Handlers :
        (CreateCalled(h) /\ IsOk(calls[h][1].ret)) =>
            /\ Len(calls[h]) = 2 => Emitted(h)
            /\ Emitted(h) =>
                  LET config == CreateConfig(h)
                      m == OutgoingMessage(h)
                  IN /\ DOMAIN m.endorsed_evidence = DOMAIN config.self_attesters
                     /\ DOMAIN m.assertions = DOMAIN config.self_assertion_generators
                     /\ \A id \in DOMAIN m.assertions :
                            m.assertions[id]
                                = Assertion(config.self_assertion_generators[id].content)
                     /\ \A id \in DOMAIN m.endorsed_evidence :
                            /\ m.endorsed_evidence[id].evidence
                                   = Some(config.self_attesters[id].evidence)
                            /\ m.endorsed_evidence[id].endorsements
                                   = IF id \in DOMAIN config.self_endorsers
                                     THEN Some(config.self_endorsers[id].endorsements)
                                     ELSE None

\* A message with evidence under "a" and "b", endorsements under "a" only,
\* and one assertion under "b"; an endorser under "b" would have had evidence
\* to endorse.
C24_Witness ==
    \E h \in Handlers :
        /\ CreateCalled(h) /\ IsOk(calls[h][1].ret) /\ Emitted(h)
        /\ DOMAIN OutgoingMessage(h).endorsed_evidence = {Id_a, Id_b}
        /\ IsSome(OutgoingMessage(h).endorsed_evidence[Id_a].endorsements)
        /\ ~IsSome(OutgoingMessage(h).endorsed_evidence[Id_b].endorsements)
        /\ DOMAIN OutgoingMessage(h).assertions = {Id_b}

(***************************************************************************)
(* A client h1 and a server h2 created from the same configuration and     *)
(* driven independently of each other with the same kinds of input.        *)
(***************************************************************************)
InitTwin ==
    /\ \E c \in HandshakeConfigs :
           handler = ("h1" :> ClientCreate(c).val) @@ ("h2" :> ServerCreate(c).val)
    /\ moved = [h \in Handlers |-> FALSE]
    /\ calls = [h \in Handlers |-> <<>>]
    /\ NoFunction /\ NoDb /\ NoSession

NextTwin ==
    \/ ClientGet("h1")
    \/ \E m \in Messages : ClientPut("h1", m)
    \/ ClientTake("h1")
    \/ ServerGet("h2")
    \/ \E m \in Messages : ServerPut("h2", m)
    \/ ServerTake("h2")

SpecTwin == InitTwin /\ [][NextTwin]_vars

(***************************************************************************)
(* C25.  The client and the server handler follow the same contract.       *)
(***************************************************************************)
\* C25: when the client and the server, created from equal configurations,
\* have been driven by the same sequence of calls with the same messages,
\* every call returned the same on both and invoked the same verifiers, and
\* both hold the same verdict and the same binding token; if the sequence
\* ends with a successful take_attestation_state both AttestationStates are
\* the same.
C25_SameContract ==
    Driven("h1") = Driven("h2") =>
        /\ \A i \in 1..Len(calls["h1"]) :
               /\ calls["h1"][i].ret = calls["h2"][i].ret
               /\ calls["h1"][i].invoked = calls["h2"][i].invoked
        /\ handler["h1"].attestation_result = handler["h2"].attestation_result
        /\ handler["h1"].attestation_binding_token = handler["h2"].attestation_binding_token
        /\ handler["h1"].attest_request = handler["h2"].attest_response
        /\ moved["h1"] = moved["h2"]
        /\ Finalized("h1") <=> Finalized("h2")

\* Both were asked for their message, ingested the same valid message and
\* were finalized with a binding verifier and a non-empty token.
C25_Witness ==
    /\ Driven("h1") = Driven("h2")
    /\ Len(calls["h1"]) = 3
    /\ IsGet(calls["h1"][1]) /\ IsPut(calls["h1"][2])
    /\ Finalized("h1") /\ Finalized("h2")
    /\ Final("h1") = Final("h2")
    /\ Final("h1").peer_session_binding_verifiers # EmptyMap
    /\ Final("h1").attestation_binding_token # <<>>

(***************************************************************************)
(* Intel TDX quote validation (oak_attestation_verification, intel.rs).    *)
(* A certificate is its public key, the key that made its signature and    *)
(* its signature algorithm; a signature verifies under a key exactly when  *)
(* that key made it.  An anyhow error is its message and the contexts      *)
(* wrapped around it, outermost first.                                     *)
(***************************************************************************)
Anyhow(msg) == [msg |-> msg, context |-> <<>>]

\* Result::context
Context(r, c) ==
    IF IsOk(r) THEN r ELSE Err([msg |-> r.err.msg, context |-> <<c>> \o r.err.context])

\* const_oid::db::rfc5912::ECDSA_WITH_SHA_256
ECDSA_WITH_SHA_256 == "ecdsa-with-SHA256"

Certificate(key, signed_by, signature_algorithm) ==
    [key |-> key, signed_by |-> signed_by, signature_algorithm |-> signature_algorithm]

\* The published Intel SGX Provisioning Certification root CA, self-signed.
PCK_ROOT == Certificate("key_root", "key_root", ECDSA_WITH_SHA_256)

\* extract_ecdsa_verifying_key
ExtractEcdsaVerifyingKey(certificate) ==
    IF certificate.key = "not_p256"
    THEN Err(Anyhow("could not parse ECDSA P256 public key"))
    ELSE Ok([verifying_key |-> certificate.key])

\* Variant of VerifyEcdsaCertSignature: the signature algorithm is not looked at.
VerifyEcdsaCertSignatureAnyAlgorithm(signer, signee) ==
    LET verifying_key == ExtractEcdsaVerifyingKey(signer)
    IN IF ~IsOk(verifying_key) THEN verifying_key
       ELSE IF signee.signed_by = "not_der"
       THEN Err(Anyhow("could not extract signature"))
       ELSE IF signee.signed_by # verifying_key.val.verifying_key
       THEN Err(Anyhow("signature verification failed"))
       ELSE Ok([unit |-> Unit])

\* verify_ecdsa_cert_signature
VerifyEcdsaCertSignature(signer, signee) ==
    IF signee.signature_algorithm # ECDSA_WITH_SHA_256
    THEN Err(Anyhow("unsupported signature algorithm"))
    ELSE LET verifying_key == ExtractEcdsaVerifyingKey(signer)
         IN IF ~IsOk(verifying_key) THEN verifying_key
            ELSE IF signee.signed_by = "not_der"
            THEN Err(Anyhow("could not extract signature"))
            ELSE IF signee.signed_by # verifying_key.val.verifying_key
            THEN Err(Anyhow("signature verification failed"))
            ELSE Ok([unit |-> Unit])

\* The loop of verify_quote_cert_chain_and_extract_leaf from signer number i
\* on: every certificate must be signed by the next one; the first failure
\* ends it.  `checked` lists the positions of the signees looked at.
RECURSIVE VerifyChainFrom(_, _, _)
VerifyChainFrom(certificates, i, checked) ==
    IF i > Len(certificates)
    THEN [result |-> Ok(certificates[1]), checked |-> checked]
    ELSE LET r == Context(VerifyEcdsaCertSignature(certificates[i], certificates[i - 1]),
                          "verifying cert signature")
         IN IF ~IsOk(r) THEN [result |-> r, checked |-> Append(checked, i - 1)]
            ELSE VerifyChainFrom(certificates, i + 1, Append(checked, i - 1))

\* Variant of VerifyQuoteCertChainAndExtractLeaf: the chain is validated as
\* it came, up to the root it brought along.
VerifyQuoteCertChainAndExtractLeafAsSent(certification_data) ==
    IF certification_data.kind # "PckCertChain"
    THEN [result |-> Err(Anyhow("certification data is not a PCK certificate chain")),
          checked |-> <<>>]
    ELSE IF ~certification_data.pem
    THEN [result |-> Err([msg |-> "invalid PEM", context |-> <<"parsing certificate chain">>]),
          checked |-> <<>>]
    ELSE IF certification_data.chain = <<>>
    THEN [result |-> Err(Anyhow("certificate chain is empty")), checked |-> <<>>]
    ELSE VerifyChainFrom(certification_data.chain, 2, <<>>)

\* verify_quote_cert_chain_and_extract_leaf
VerifyQuoteCertChainAndExtractLeaf(certification_data) ==
    IF certification_data.kind # "PckCertChain"
    THEN [result |-> Err(Anyhow("certification data is not a PCK certificate chain")),
          checked |-> <<>>]
    ELSE IF ~certification_data.pem
    THEN [result |-> Err([msg |-> "invalid PEM", context |-> <<"parsing certificate chain">>]),
          checked |-> <<>>]
    ELSE IF certification_data.chain = <<>>
    THEN [result |-> Err(Anyhow("certificate chain is empty")), checked |-> <<>>]
    ELSE LET chain == certification_data.chain
             certificates == SubSeq(chain, 1, Len(chain) - 1) \o <<PCK_ROOT>>
         IN VerifyChainFrom(certificates, 2, <<>>)

(***************************************************************************)
(* verify_quote_cert_chain_and_extract_leaf on its own, applied to any     *)
(* certification data.                                                     *)
(***************************************************************************)
\* The most certificates a chain on the wire has.
MaxChainLen == 3

\* The certificates a chain on the wire is made of: any of three keys,
\* signed by any of three keys with either algorithm, a certificate whose
\* key is not a P-256 key and one whose signature is not DER.
Certificates ==
    {Certificate(k, s, a) : k \in {"key_leaf", "key_ca", "key_evil"},
                            s \in {"key_ca", "key_root", "key_evil"},
                            a \in {ECDSA_WITH_SHA_256, "sha256WithRSAEncryption"}}
        \cup {Certificate("not_p256", "key_root", ECDSA_WITH_SHA_256),
              Certificate("key_leaf", "not_der", ECDSA_WITH_SHA_256)}

Chains == UNION {[1..n -> Certificates] : n \in 0..MaxChainLen}

\* QeCertificationData::PckCertChain(chain), chain being PEM or not.
PckCertChain(chain) == [kind |-> "PckCertChain", pem |-> TRUE, chain |-> chain]

CertificationDatas ==
    {PckCertChain(c) : c \in Chains}
        \cup {[kind |-> "PckCertChain", pem |-> FALSE, chain |-> <<>>],
              [kind |-> "Unsupported", pem |-> FALSE, chain |-> <<>>]}

InitCertChain ==
    /\ input \in CertificationDatas
    /\ output = None
    /\ NoHandlers /\ NoDb /\ NoSession

CertChain ==
    /\ output = None
    /\ output' = Some(VerifyQuoteCertChainAndExtractLeaf(input))
    /\ UNCHANGED <<input, handlerVars, dbVars, sessionVars>>

NextCertChain == CertChain

SpecCertChain == InitCertChain /\ [][NextCertChain]_vars

\* A chain of PEM certificates was validated.
ChainValidated == IsSome(output) /\ input.kind = "PckCertChain" /\ input.pem

\* The chain with its certificate number i replaced by c.
Replaced(chain, i, c) == [chain EXCEPT ![i] = c]

(***************************************************************************)
(* C26.  The root certificate on the wire does not matter; an              *)
(* intermediate certificate does.                                          *)
(***************************************************************************)
\* C26: the result for a chain is the result for the same chain with any
\* other last certificate; and a chain in which some certificate between
\* the first and the last did not sign the certificate before it is
\* rejected.
C26_WireRootIgnored ==
    (ChainValidated /\ input.chain # <<>>) =>
        LET chain == input.chain
        IN /\ \A c \in Certificates :
                  VerifyQuoteCertChainAndExtractLeaf(
                      PckCertChain(Replaced(chain, Len(chain), c))).result
                      = output.val.result
           /\ \A i \in 2..(Len(chain) - 1) :
                  chain[i].key # chain[i - 1].signed_by => ~IsOk(output.val.result)

\* A leaf and its issuing CA are accepted although the root that came with
\* them is self-signed by another key.
C26_Witness ==
    /\ ChainValidated
    /\ input.chain = <<Certificate("key_leaf", "key_ca", ECDSA_WITH_SHA_256),
                        Certificate("key_ca", "key_root", ECDSA_WITH_SHA_256),
                        Certificate("key_evil", "key_evil", ECDSA_WITH_SHA_256)>>
    /\ output.val.result = Ok(Certificate("key_leaf", "key_ca", ECDSA_WITH_SHA_256))

\* The certificates that are validated: the chain with PCK_ROOT in the place
\* of its last certificate.
Validated == SubSeq(input.chain, 1, Len(input.chain) - 1) \o <<PCK_ROOT>>

\* The positions of the certificates of `certificates` that are not signed
\* with ECDSA-with-SHA-256.
OtherAlgorithm(certificates) ==
    {i \in 1..Len(certificates) : certificates[i].signature_algorithm # ECDSA_WITH_SHA_256}

Min(S) == CHOOSE i \in S : \A j \in S : i <= j

(***************************************************************************)
(* C27.  A certificate signed with another algorithm.                      *)
(***************************************************************************)
\* C27 as stated: when any certificate of the chain on the wire is signed
\* with another algorithm than ECDSA-with-SHA-256, validation fails with
\* "unsupported signature algorithm" and that certificate is the last signee
\* looked at.
C27_AsStated ==
    (ChainValidated /\ OtherAlgorithm(input.chain) # {}) =>
        /\ ~IsOk(output.val.result)
        /\ output.val.result.err.msg = "unsupported signature algorithm"
        /\ output.val.checked = [i \in 1..Min(OtherAlgorithm(input.chain)) |-> i]

\* C27 as amended: when a certificate other than the last one on the wire is
\* signed with another algorithm, validation fails; if every certificate
\* before the first such one is properly signed by its successor, the error
\* is "unsupported signature algorithm" in the context "verifying cert
\* signature" and no later certificate is looked at.  The algorithm of the
\* last certificate on the wire is never looked at.
C27_UnsupportedAlgorithmStops ==
    (ChainValidated /\ input.chain # <<>>) =>
        LET signees == SubSeq(input.chain, 1, Len(input.chain) - 1)
        IN /\ Len(output.val.checked) <= Len(signees)
           /\ OtherAlgorithm(signees) # {} =>
                 LET first == Min(OtherAlgorithm(signees))
                 IN /\ ~IsOk(output.val.result)
                    /\ (\A j \in 1..(first - 1) :
                            IsOk(VerifyEcdsaCertSignature(Validated[j + 1], Validated[j])))
                          => /\ output.val.result.err
                                    = [msg |-> "unsupported signature algorithm",
                                       context |-> <<"verifying cert signature">>]
                             /\ output.val.checked = [i \in 1..first |-> i]

\* The CA certificate of a chain of three is signed with RSA: the leaf is
\* checked, the CA certificate is refused, nothing else is looked at.
C27_Witness ==
    /\ ChainValidated
    /\ input.chain = <<Certificate("key_leaf", "key_ca", ECDSA_WITH_SHA_256),
                        Certificate("key_ca", "key_root", "sha256WithRSAEncryption"),
                        Certificate("key_evil", "key_evil", ECDSA_WITH_SHA_256)>>
    /\ output.val.result.err.msg = "unsupported signature algorithm"
    /\ output.val.checked = <<1, 2>>

(***************************************************************************)
(* verify_intel_tdx_quote_validity.  A quote is what parse_signature_data  *)
(* finds in it; a signature is the key that made it, and one that does    *)
(* not parse is "malformed" (QE report) or empty (quote); the attestation  *)
(* key and the authentication data are bytes, the key of a fixed length.   *)
(***************************************************************************)
\* hash_sha2_256: no two inputs have the same digest.
HashSha2_256(bytes) == [sha256_of |-> bytes]

\* [0u8; 32] == report_data[32..]
AllZero(bytes) == \A i \in 1..Len(bytes) : bytes[i] = 0

\* Whether the 64 bytes are the coordinates of a point of P-256.
IsPoint(key) == key # <<0, 0>>

\* Variant of VerifyIntelTdxQuoteValidity: the digest bound into the QE
\* report is taken to be that of the attestation key alone.
VerifyIntelTdxQuoteValidityKeyOnly(quote) ==
    IF ~quote.signature_data_parses
    THEN Err([msg |-> "invalid signature data", context |-> <<"parsing signature data">>])
    ELSE IF quote.certification_data.kind # "QeReportCertificationData"
    THEN Err(Anyhow("signature data contains the wrong type of certification data"))
    ELSE LET report_certification == quote.certification_data
         IN LET leaf == Context(VerifyQuoteCertChainAndExtractLeaf(
                               report_certification.certification_data).result,
                           "verifying quote cert chain")
         IN IF ~IsOk(leaf) THEN leaf
            ELSE LET pck_verifying_key == ExtractEcdsaVerifyingKey(leaf.val)
            IN IF ~IsOk(pck_verifying_key) THEN pck_verifying_key
            ELSE IF report_certification.signature = "malformed"
            THEN Err(Anyhow("couldn't parse QE Report signature"))
            ELSE IF report_certification.signature # pck_verifying_key.val.verifying_key
            THEN Err(Anyhow("QE Report signature verification failed"))
            ELSE IF ~report_certification.report_body_parses
            THEN Err([msg |-> "invalid report body",
                      context |-> <<"parsing enclave report body">>])
            ELSE IF HashSha2_256(quote.ecdsa_attestation_key) # report_certification.report_data.first_32
            THEN Err(Anyhow("attestation key is not bound to quoting enclave report"))
            ELSE IF ~AllZero(report_certification.report_data.rest)
            THEN Err(Anyhow("unexpected data in quoting enclave report data"))
            ELSE IF ~IsPoint(quote.ecdsa_attestation_key)
            THEN Err(Anyhow("couldn't parse attestation public key"))
            ELSE IF quote.quote_signature = <<>>
            THEN Err(Anyhow("couldn't parse quote signature"))
            ELSE IF quote.quote_signature # quote.ecdsa_attestation_key
            THEN Err(Anyhow("quote signature verification failed"))
            ELSE Ok([unit |-> Unit])

\* Variant of VerifyIntelTdxQuoteValidity: the quote signature is verified
\* before the attestation key is checked against the QE report.
VerifyIntelTdxQuoteValidityQuoteFirst(quote) ==
    IF ~quote.signature_data_parses
    THEN Err([msg |-> "invalid signature data", context |-> <<"parsing signature data">>])
    ELSE IF quote.certification_data.kind # "QeReportCertificationData"
    THEN Err(Anyhow("signature data contains the wrong type of certification data"))
    ELSE LET report_certification == quote.certification_data
         IN LET leaf == Context(VerifyQuoteCertChainAndExtractLeaf(
                               report_certification.certification_data).result,
                           "verifying quote cert chain")
         IN IF ~IsOk(leaf) THEN leaf
            ELSE LET pck_verifying_key == ExtractEcdsaVerifyingKey(leaf.val)
            IN IF ~IsOk(pck_verifying_key) THEN pck_verifying_key
            ELSE IF report_certification.signature = "malformed"
            THEN Err(Anyhow("couldn't parse QE Report signature"))
            ELSE IF report_certification.signature # pck_verifying_key.val.verifying_key
            THEN Err(Anyhow("QE Report signature verification failed"))
            ELSE IF ~IsPoint(quote.ecdsa_attestation_key)
            THEN Err(Anyhow("couldn't parse attestation public key"))
            ELSE IF quote.quote_signature = <<>>
            THEN Err(Anyhow("couldn't parse quote signature"))
            ELSE IF quote.quote_signature # quote.ecdsa_attestation_key
            THEN Err(Anyhow("quote signature verification failed"))
            ELSE IF ~report_certification.report_body_parses
            THEN Err([msg |-> "invalid report body",
                      context |-> <<"parsing enclave report body">>])
            ELSE IF HashSha2_256(quote.ecdsa_attestation_key \o report_certification.authentication_data) # report_certification.report_data.first_32
            THEN Err(Anyhow("attestation key is not bound to quoting enclave report"))
            ELSE IF ~AllZero(report_certification.report_data.rest)
            THEN Err(Anyhow("unexpected data in quoting enclave report data"))
            ELSE Ok([unit |-> Unit])

\* verify_intel_tdx_quote_validity
VerifyIntelTdxQuoteValidity(quote) ==
    IF ~quote.signature_data_parses
    THEN Err([msg |-> "invalid signature data", context |-> <<"parsing signature data">>])
    ELSE IF quote.certification_data.kind # "QeReportCertificationData"
    THEN Err(Anyhow("signature data contains the wrong type of certification data"))
    ELSE LET report_certification == quote.certification_data
         IN LET leaf == Context(VerifyQuoteCertChainAndExtractLeaf(
                               report_certification.certification_data).result,
                           "verifying quote cert chain")
         IN IF ~IsOk(leaf) THEN leaf
            ELSE LET pck_verifying_key == ExtractEcdsaVerifyingKey(leaf.val)
            IN IF ~IsOk(pck_verifying_key) THEN pck_verifying_key
            ELSE IF report_certification.signature = "malformed"
            THEN Err(Anyhow("couldn't parse QE Report signature"))
            ELSE IF report_certification.signature # pck_verifying_key.val.verifying_key
            THEN Err(Anyhow("QE Report signature verification failed"))
            ELSE IF ~report_certification.report_body_parses
            THEN Err([msg |-> "invalid report body",
                      context |-> <<"parsing enclave report body">>])
            ELSE IF HashSha2_256(quote.ecdsa_attestation_key \o report_certification.authentication_data) # report_certification.report_data.first_32
            THEN Err(Anyhow("attestation key is not bound to quoting enclave report"))
            ELSE IF ~AllZero(report_certification.report_data.rest)
            THEN Err(Anyhow("unexpected data in quoting enclave report data"))
            ELSE IF ~IsPoint(quote.ecdsa_attestation_key)
            THEN Err(Anyhow("couldn't parse attestation public key"))
            ELSE IF quote.quote_signature = <<>>
            THEN Err(Anyhow("couldn't parse quote signature"))
            ELSE IF quote.quote_signature # quote.ecdsa_attestation_key
            THEN Err(Anyhow("quote signature verification failed"))
            ELSE Ok([unit |-> Unit])

(***************************************************************************)
(* verify_intel_tdx_quote_validity on its own, applied to any quote.       *)
(***************************************************************************)
AttestationKeys == {<<1, 1>>, <<1, 2>>, <<0, 0>>}

AuthenticationDatas == {<<7>>, <<1, 7>>}

\* The certificate chains of the quotes: a genuine one, a genuine one that
\* came with a forged root, one with a CA that did not sign the leaf, one
\* whose leaf key is not a P-256 key, and nothing.
GenuineLeaf == Certificate("key_leaf", "key_ca", ECDSA_WITH_SHA_256)

GenuineCa == Certificate("key_ca", "key_root", ECDSA_WITH_SHA_256)

QuoteChains ==
    {<<GenuineLeaf, GenuineCa, PCK_ROOT>>,
     <<GenuineLeaf, GenuineCa, Certificate("key_evil", "key_evil", ECDSA_WITH_SHA_256)>>,
     <<GenuineLeaf, Certificate("key_evil", "key_root", ECDSA_WITH_SHA_256), PCK_ROOT>>,
     <<Certificate("not_p256", "key_ca", ECDSA_WITH_SHA_256), GenuineCa, PCK_ROOT>>,
     <<>>}

\* QeCertificationData::QeReportCertificationData(report_certification)
QeReportCertificationDatas ==
    [kind : {"QeReportCertificationData"},
     certification_data : {PckCertChain(c) : c \in QuoteChains}
                              \cup {[kind |-> "Unsupported", pem |-> FALSE, chain |-> <<>>]},
     signature : {"key_leaf", "key_evil", "malformed"},
     report_body_parses : BOOLEAN,
     report_data : [first_32 : {HashSha2_256(k \o a) :
                                   k \in AttestationKeys, a \in AuthenticationDatas}
                                   \cup {HashSha2_256(<<1, 1>>)},
                    rest : {<<0, 0>>, <<0, 1>>}],
     authentication_data : AuthenticationDatas]

\* A quote whose certification data is not a QE report certification.
OtherCertificationData ==
    [kind |-> "PckCertChain",
     certification_data |-> PckCertChain(<<>>),
     signature |-> "malformed",
     report_body_parses |-> FALSE,
     report_data |-> [first_32 |-> HashSha2_256(<<>>), rest |-> <<0, 0>>],
     authentication_data |-> <<7>>]

Quotes ==
    [signature_data_parses : {TRUE},
     certification_data : QeReportCertificationDatas \cup {OtherCertificationData},
     ecdsa_attestation_key : AttestationKeys,
     quote_signature : {<<1, 1>>, <<1, 2>>, <<>>}]
        \cup [signature_data_parses : {FALSE},
              certification_data : {OtherCertificationData},
              ecdsa_attestation_key : {<<1, 1>>},
              quote_signature : {<<>>}]

InitQuote ==
    /\ input \in Quotes
    /\ output = None
    /\ NoHandlers /\ NoDb /\ NoSession

QuoteValidity ==
    /\ output = None
    /\ output' = Some(VerifyIntelTdxQuoteValidity(input))
    /\ UNCHANGED <<input, handlerVars, dbVars, sessionVars>>

NextQuote == QuoteValidity

SpecQuote == InitQuote /\ [][NextQuote]_vars

\* The function has been applied to the quote.
QuoteVerified == IsSome(output)

\* The QE report's report_data binds the attestation key and the
\* authentication data of the quote.
BoundTo(quote, key, authentication_data) ==
    /\ quote.certification_data.report_data.first_32
           = HashSha2_256(key \o authentication_data)
    /\ AllZero(quote.certification_data.report_data.rest)

\* The quote with another attestation key and other authentication data,
\* and the report_data it had.
Rebound(quote, key, authentication_data) ==
    [quote EXCEPT !.ecdsa_attestation_key = key,
                  !.certification_data.authentication_data = authentication_data]

BindingError == Err(Anyhow("attestation key is not bound to quoting enclave report"))

\* C28: the function fails unless the first 32 bytes of the QE report's
\* report_data are SHA-256(ecdsa_attestation_key || authentication_data) and
\* the other 32 bytes are zero; and a quote that passes, given another
\* attestation key or other authentication data and the same report_data,
\* fails the binding check.
C28_ReportDataBindsKey ==
    (QuoteVerified /\ IsOk(output.val))
        => /\ BoundTo(input, input.ecdsa_attestation_key,
                      input.certification_data.authentication_data)
           /\ \A k \in AttestationKeys, a \in AuthenticationDatas :
                  (<<k, a>> # <<input.ecdsa_attestation_key,
                               input.certification_data.authentication_data>>)
                      => VerifyIntelTdxQuoteValidity(Rebound(input, k, a)) = BindingError

\* A quote has passed whose key and authentication data could be changed.
C28_Witness ==
    /\ QuoteVerified
    /\ IsOk(output.val)
    /\ input.certification_data.authentication_data = <<1, 7>>

(***************************************************************************)
(* C29.  The five conditions of a valid quote, stated on the quote.        *)
(***************************************************************************)
\* The PCK leaf certificate of the quote, if its chain validates.
PckLeaf(quote) ==
    VerifyQuoteCertChainAndExtractLeaf(quote.certification_data.certification_data).result

\* Whether the i-th condition holds of the quote: 1 the certification data
\* is QeReportCertificationData, 2 its nested data is a PCK certificate chain
\* that validates up to the trusted root, 3 the QE report signature verifies
\* under the PCK leaf key, 4 the attestation key is bound to the QE report,
\* 5 the quote signature verifies under the attestation key.
ConditionHolds(quote, i) ==
    CASE i = 1 -> /\ quote.signature_data_parses
                  /\ quote.certification_data.kind = "QeReportCertificationData"
      [] i = 2 -> IsOk(PckLeaf(quote))
      [] i = 3 -> /\ IsOk(PckLeaf(quote))
                  /\ PckLeaf(quote).val.key # "not_p256"
                  /\ quote.certification_data.signature = PckLeaf(quote).val.key
      [] i = 4 -> /\ quote.certification_data.report_body_parses
                  /\ BoundTo(quote, quote.ecdsa_attestation_key,
                             quote.certification_data.authentication_data)
      [] i = 5 -> /\ IsPoint(quote.ecdsa_attestation_key)
                  /\ quote.quote_signature = quote.ecdsa_attestation_key

Conditions == 1..5

\* The condition an error of the function reports as failed.
ConditionOf(err) ==
    CASE err.context = <<"parsing signature data">> -> 1
      [] err.msg = "signature data contains the wrong type of certification data" -> 1
      [] err.context # <<>> /\ err.context[1] = "verifying quote cert chain" -> 2
      [] err.context = <<>>
             /\ err.msg \in {"could not parse ECDSA P256 public key",
                              "couldn't parse QE Report signature",
                              "QE Report signature verification failed"} -> 3
      [] err.context = <<"parsing enclave report body">> -> 4
      [] err.msg \in {"attestation key is not bound to quoting enclave report",
                      "unexpected data in quoting enclave report data"} -> 4
      [] err.msg \in {"couldn't parse attestation public key",
                      "couldn't parse quote signature",
                      "quote signature verification failed"} -> 5
      [] OTHER -> 0

Failing(quote) == {i \in Conditions : ~ConditionHolds(quote, i)}

\* C29: the function returns Ok only if the five conditions hold, and
\* otherwise returns the error of the first of them, in their order, that
\* does not hold.
C29_FirstFailureInOrder ==
    QuoteVerified
        => /\ IsOk(output.val) <=> Failing(input) = {}
           /\ ~IsOk(output.val) => ConditionOf(output.val.err) = Min(Failing(input))

\* A quote was rejected for its binding although its quote signature does
\* not verify either.
C29_Witness ==
    /\ QuoteVerified
    /\ ~IsOk(output.val)
    /\ ConditionOf(output.val.err) = 4
    /\ Failing(input) = {4, 5}

(***************************************************************************)
(* confidential_space_policy_from_reference_values                         *)
(* (oak_attestation_gcp/src/policy_generator.rs).  A PEM document is its   *)
(* label and what its body decodes to; a key of the reference values is    *)
(* what it decodes to.                                                     *)
(***************************************************************************)
\* Certificate::from_pem
FromPem(pem) ==
    IF pem.label # "CERTIFICATE" THEN Err(Anyhow("PEM label does not match"))
    ELSE IF pem.der \notin {"root_ca", "other_ca"} THEN Err(Anyhow("not a certificate"))
    ELSE Ok([certificate |-> pem.der])

\* CosignReferenceValues::from_proto: the developer key is required and has
\* to decode, the Rekor key is optional.
FromProto(proto) ==
    IF ~IsSome(proto.developer_public_key)
    THEN Err(Anyhow("missing developer public key"))
    ELSE IF proto.developer_public_key.val.key = "not_p256"
    THEN Err(Anyhow("invalid developer public key"))
    ELSE Ok([developer_public_key |-> proto.developer_public_key.val.key,
             rekor_public_key |-> proto.rekor_public_key])

\* ConfidentialSpacePolicy::new
New(root_certificate, cosign_reference_values) ==
    [root_certificate |-> root_certificate.certificate,
     workload_endorsement |-> Some(cosign_reference_values)]

\* ConfidentialSpacePolicy::new_unendorsed
NewUnendorsed(root_certificate) ==
    [root_certificate |-> root_certificate.certificate,
     workload_endorsement |-> None]

NotYetSupported == Err(Anyhow("Container image reference not yet supported"))

\* Variant of ConfidentialSpacePolicyFromReferenceValues: the root
\* certificate is parsed only once the container image has been accepted.
ConfidentialSpacePolicyFromReferenceValuesImageFirst(reference_values) ==
    LET root_certificate == FromPem(reference_values.root_certificate_pem)
        container_image == reference_values.container_image
    IN IF ~IsSome(container_image)
       THEN IF ~IsOk(root_certificate) THEN root_certificate
            ELSE Ok(NewUnendorsed(root_certificate.val))
       ELSE IF container_image.val.kind = "CosignReferenceValues"
       THEN LET cosign_reference_values == FromProto(container_image.val)
            IN IF ~IsOk(cosign_reference_values) THEN cosign_reference_values
               ELSE IF ~IsOk(root_certificate) THEN root_certificate
               ELSE Ok(New(root_certificate.val, cosign_reference_values.val))
       ELSE NotYetSupported

\* confidential_space_policy_from_reference_values
ConfidentialSpacePolicyFromReferenceValues(reference_values) ==
    LET root_certificate == FromPem(reference_values.root_certificate_pem)
        container_image == reference_values.container_image
    IN IF ~IsOk(root_certificate) THEN root_certificate
       ELSE IF ~IsSome(container_image)
       THEN Ok(NewUnendorsed(root_certificate.val))
       ELSE IF container_image.val.kind = "CosignReferenceValues"
       THEN LET cosign_reference_values == FromProto(container_image.val)
            IN IF ~IsOk(cosign_reference_values) THEN cosign_reference_values
               ELSE Ok(New(root_certificate.val, cosign_reference_values.val))
       ELSE NotYetSupported

(***************************************************************************)
(* The function on its own, applied to any reference values.               *)
(***************************************************************************)
RootCertificatePems ==
    {[label |-> "CERTIFICATE", der |-> "root_ca"],
     [label |-> "CERTIFICATE", der |-> "other_ca"],
     [label |-> "CERTIFICATE", der |-> "not_der"],
     [label |-> "PUBLIC KEY", der |-> "root_ca"],
     [label |-> "", der |-> ""]}

PublicKeys == {None} \cup {Some([key |-> k]) : k \in {"key_dev", "key_rekor", "not_p256"}}

ContainerImages ==
    {None}
        \cup {Some(c) : c \in [kind : {"CosignReferenceValues"},
                               developer_public_key : PublicKeys,
                               rekor_public_key : PublicKeys
                                   \ {Some([key |-> "not_p256"])}]}
        \cup {Some(c) : c \in [kind : {"ContainerImageReference"},
                               developer_public_key : {None},
                               rekor_public_key : {None}]}

ReferenceValues ==
    [root_certificate_pem : RootCertificatePems, container_image : ContainerImages]

InitPolicy ==
    /\ input \in ReferenceValues
    /\ output = None
    /\ NoHandlers /\ NoDb /\ NoSession

PolicyFromReferenceValues ==
    /\ output = None
    /\ output' = Some(ConfidentialSpacePolicyFromReferenceValues(input))
    /\ UNCHANGED <<input, handlerVars, dbVars, sessionVars>>

NextPolicy == PolicyFromReferenceValues

SpecPolicy == InitPolicy /\ [][NextPolicy]_vars

\* The policy has been generated, or refused.
Generated == IsSome(output)

ValidRoot == IsOk(FromPem(input.root_certificate_pem))

ImageKind == IF IsSome(input.container_image) THEN input.container_image.val.kind ELSE "None"

IsEndorsed(policy) == IsSome(policy.workload_endorsement)

\* C30 as stated: the function fails whenever the root certificate does not
\* parse, whatever the container image; with a valid root it returns an
\* endorsed policy for CosignReferenceValues, an unendorsed one for no
\* container image, and an error for ContainerImageReference.
C30_AsStated ==
    Generated
        => /\ ~ValidRoot => ~IsOk(output.val)
           /\ (ValidRoot /\ ImageKind = "CosignReferenceValues")
                  => IsOk(output.val) /\ IsEndorsed(output.val.val)
           /\ (ValidRoot /\ ImageKind = "None")
                  => IsOk(output.val) /\ ~IsEndorsed(output.val.val)
           /\ (ValidRoot /\ ImageKind = "ContainerImageReference")
                  => ~IsOk(output.val)

\* C30, amended: as stated, except that with a valid root and
\* CosignReferenceValues the function returns an endorsed policy with these
\* values when they convert, and the error of the conversion when they do
\* not.
C30_PolicyPerContainerImage ==
    Generated
        => /\ ~ValidRoot => output.val = FromPem(input.root_certificate_pem)
           /\ (ValidRoot /\ ImageKind = "CosignReferenceValues")
                  => LET converted == FromProto(input.container_image.val)
                     IN IF IsOk(converted)
                        THEN /\ IsOk(output.val)
                             /\ output.val.val.workload_endorsement = Some(converted.val)
                             /\ output.val.val.root_certificate = input.root_certificate_pem.der
                        ELSE output.val = converted
           /\ (ValidRoot /\ ImageKind = "None")
                  => /\ IsOk(output.val)
                     /\ ~IsEndorsed(output.val.val)
                     /\ output.val.val.root_certificate = input.root_certificate_pem.der
           /\ (ValidRoot /\ ImageKind = "ContainerImageReference")
                  => output.val = NotYetSupported

\* Cosign reference values that do not convert have been refused although
\* the root certificate parses.
C30_Witness ==
    /\ Generated
    /\ ValidRoot
    /\ ImageKind = "CosignReferenceValues"
    /\ ~IsOk(FromProto(input.container_image.val))
    /\ ~IsOk(output.val)

(***************************************************************************)
(* read_pci_crs_allowlist (stage0/src/pci/mod.rs).  The firmware is the    *)
(* allowlist file it holds, if any, and whether reading it succeeds.       *)
(***************************************************************************)
\* size_of::<PciCrsAllowlistEntry>()
EntrySize == 8

PCI_CRS_ALLOWLIST_MAX_ENTRY_COUNT == 11

\* The u32 that four bytes in memory are, least significant byte first,
\* written in base 65536 with its most significant digit first.
U32FromLeBytes(b) == <<b[3] + 256 * b[4], b[1] + 256 * b[2]>>

\* The PciCrsAllowlistEntry that eight bytes are, read in place (repr(C),
\* little-endian target).
FromBytes(b) ==
    [address |-> U32FromLeBytes(SubSeq(b, 1, 4)), length |-> U32FromLeBytes(SubSeq(b, 5, 8))]

\* Firmware::read_file into a buffer of the file's size.
ReadFile(firmware, size) ==
    IF firmware.read_fails THEN Err("fw_cfg read failed")
    ELSE Ok([buf |-> SubSeq(firmware.file.val.bytes, 1, size)])

\* Variant of ReadPciCrsAllowlist: a file that ends inside an entry is read
\* all the same.
ReadPciCrsAllowlistAnySize(firmware) ==
    IF ~IsSome(firmware.file) THEN Ok(None)
    ELSE IF Len(firmware.file.val.bytes) > PCI_CRS_ALLOWLIST_MAX_ENTRY_COUNT * EntrySize
    THEN Err("too many entries in etc/pci-crs-whitelist")
    ELSE LET size == Len(firmware.file.val.bytes)
             read == ReadFile(firmware, size)
         IN IF ~IsOk(read) THEN read
            ELSE LET bytes == read.val.buf
                                  \o [i \in 1..(PCI_CRS_ALLOWLIST_MAX_ENTRY_COUNT * EntrySize
                                                    - size) |-> 0]
                 IN Ok(Some([i \in 1..PCI_CRS_ALLOWLIST_MAX_ENTRY_COUNT |->
                                FromBytes(SubSeq(bytes, (i - 1) * EntrySize + 1,
                                                 i * EntrySize))]))

\* read_pci_crs_allowlist
ReadPciCrsAllowlist(firmware) ==
    IF ~IsSome(firmware.file) THEN Ok(None)
    ELSE IF Len(firmware.file.val.bytes) % EntrySize # 0
    THEN Err("invalid etc/pci-crs-whitelist file size")
    ELSE IF Len(firmware.file.val.bytes) > PCI_CRS_ALLOWLIST_MAX_ENTRY_COUNT * EntrySize
    THEN Err("too many entries in etc/pci-crs-whitelist")
    ELSE LET size == Len(firmware.file.val.bytes)
             read == ReadFile(firmware, size)
         IN IF ~IsOk(read) THEN read
            ELSE LET bytes == read.val.buf
                                  \o [i \in 1..(PCI_CRS_ALLOWLIST_MAX_ENTRY_COUNT * EntrySize
                                                    - size) |-> 0]
                 IN Ok(Some([i \in 1..PCI_CRS_ALLOWLIST_MAX_ENTRY_COUNT |->
                                FromBytes(SubSeq(bytes, (i - 1) * EntrySize + 1,
                                                 i * EntrySize))]))

(***************************************************************************)
(* The function on its own, applied to any firmware.                       *)
(***************************************************************************)
MaxFileSize == 97

\* The contents of the files: byte i is mul * i + add.
Patterns == {[mul |-> 1, add |-> 0], [mul |-> 0, add |-> 0], [mul |-> 37, add |-> 200]}

FileOf(size, pattern) ==
    [bytes |-> [i \in 1..size |-> (pattern.mul * i + pattern.add) % 256]]

Firmwares ==
    {[file |-> None, read_fails |-> FALSE]}
        \cup {[file |-> Some(FileOf(size, pattern)), read_fails |-> f] :
                  size \in 0..MaxFileSize, pattern \in Patterns, f \in BOOLEAN}

InitAllowlist ==
    /\ input \in Firmwares
    /\ output = None
    /\ NoHandlers /\ NoDb /\ NoSession

ReadAllowlist ==
    /\ output = None
    /\ output' = Some(ReadPciCrsAllowlist(input))
    /\ UNCHANGED <<input, handlerVars, dbVars, sessionVars>>

NextAllowlist == ReadAllowlist

SpecAllowlist == InitAllowlist /\ [][NextAllowlist]_vars

\* The allowlist has been read, or not.
AllowlistRead == IsSome(output)

FileSize == Len(input.file.val.bytes)

\* The k-th 32-bit little-endian word of the file, from 0, as its upper and
\* lower 16 bits.
Word(k) ==
    LET b == input.file.val.bytes
    IN <<256 * b[4 * k + 4] + b[4 * k + 3], 256 * b[4 * k + 2] + b[4 * k + 1]>>

\* The entries are the pairs of the file followed by zero entries.
EntriesOfFile(entries) ==
    /\ DOMAIN entries = 1..11
    /\ \A i \in 1..11 :
           IF i <= FileSize \div 8
           THEN entries[i] = [address |-> Word(2 * (i - 1)), length |-> Word(2 * (i - 1) + 1)]
           ELSE entries[i] = [address |-> <<0, 0>>, length |-> <<0, 0>>]

\* C31 as stated: without an allowlist file the function returns Ok(None);
\* with a file whose size is not a multiple of 8 or is more than 11 entries
\* it returns an error; otherwise it returns exactly 11 entries, the first
\* size/8 of them the little-endian (address, length) pairs of the file and
\* the others zero.
C31_AsStated ==
    AllowlistRead
        => IF ~IsSome(input.file) THEN output.val = Ok(None)
           ELSE IF FileSize % 8 # 0 \/ FileSize > 11 * 8 THEN ~IsOk(output.val)
           ELSE /\ IsOk(output.val)
                /\ IsSome(output.val.val)
                /\ EntriesOfFile(output.val.val.val)

\* C31, amended: as stated, except that a file of an accepted size that the
\* firmware fails to read gives the error of the read.
C31_AllowlistEntries ==
    AllowlistRead
        => IF ~IsSome(input.file) THEN output.val = Ok(None)
           ELSE IF FileSize % 8 # 0 \/ FileSize > 11 * 8 THEN ~IsOk(output.val)
           ELSE IF input.read_fails THEN output.val = Err("fw_cfg read failed")
           ELSE /\ IsOk(output.val)
                /\ IsSome(output.val.val)
                /\ EntriesOfFile(output.val.val.val)

\* A file of three entries with different bytes has been read.
C31_Witness ==
    /\ AllowlistRead
    /\ IsSome(input.file)
    /\ FileSize = 24
    /\ input.file.val.bytes[1] = 1
    /\ IsOk(output.val)
    /\ output.val.val.val[1] = [address |-> <<1027, 513>>, length |-> <<2055, 1541>>]
    /\ output.val.val.val[4] = [address |-> <<0, 0>>, length |-> <<0, 0>>]

(***************************************************************************)
(* One handler h1, a client or a server that attests and verifies, driven  *)
(* with a valid message and with one on which its verifier fails, both     *)
(* with assertions; h2 stands by.                                          *)
(***************************************************************************)
\* Evidence for "a" on which the verifier itself fails, and an assertion.
MsgGarbledAsserting ==
    [endorsed_evidence |-> (Id_a :> Endorsed("ev_garbled")),
     assertions |-> (Id_a :> Assertion(<<122>>))]

RetryMessages == {MsgValid, MsgGarbledAsserting}

InitRetry ==
    /\ \/ handler = ("h1" :> ClientCreate(ConfigBidirectional).val)
                         @@ ("h2" :> ServerCreate(ConfigUnattested).val)
       \/ handler = ("h1" :> ServerCreate(ConfigBidirectional).val)
                         @@ ("h2" :> ClientCreate(ConfigUnattested).val)
    /\ moved = [h \in Handlers |-> FALSE]
    /\ calls = [h \in Handlers |-> <<>>]
    /\ NoFunction /\ NoDb /\ NoSession

NextRetry ==
    \/ ClientGet("h1")
    \/ ServerGet("h1")
    \/ \E m \in RetryMessages : ClientPut("h1", m)
    \/ \E m \in RetryMessages : ServerPut("h1", m)
    \/ ClientTake("h1")
    \/ ServerTake("h1")

SpecRetry == InitRetry /\ [][NextRetry]_vars

\* The binding token of h1.
Token == handler["h1"].attestation_binding_token

(***************************************************************************)
(* C32.  The binding token is append-only.                                 *)
(***************************************************************************)
\* C32: every get_outgoing_message and put_incoming_message step, whatever
\* it returns, leaves the binding token of before as a prefix of the token of
\* after, and the token is at all times the segments of the calls made so
\* far in the order of the calls.
C32_TokenAppendOnly ==
    /\ [][/\ Len(Token') >= Len(Token)
          /\ SubSeq(Token', 1, Len(Token)) = Token
          /\ (Called("h1") /\ ~IsTake(NewCall("h1")))
                 => Token' = Token \o Segment("h1", NewCall("h1"))]_vars
    /\ [](Token = Transcript("h1", Len(calls["h1"])))

\* A call that returned Some, one that returned None and one that returned
\* an error have each extended the token.
C32_Witness ==
    /\ Len(calls["h1"]) = 3
    /\ IsPut(calls["h1"][1]) /\ ~IsOk(calls["h1"][1].ret)
    /\ IsGet(calls["h1"][2]) /\ IsSome(calls["h1"][2].ret.val)
    /\ IsGet(calls["h1"][3]) /\ ~IsSome(calls["h1"][3].ret.val)
    /\ Len(Token) > Len(Transcript("h1", 2))
    /\ Len(Transcript("h1", 2)) > Len(Transcript("h1", 1))
    /\ Len(Transcript("h1", 1)) > 0

(***************************************************************************)
(* C33.  A put_incoming_message call whose verifier fails.                 *)
(***************************************************************************)
\* The step is a put_incoming_message call on h1 that returned an error.
FailedPut == Called("h1") /\ IsPut(NewCall("h1")) /\ ~IsOk(NewCall("h1").ret)

\* C33: a put_incoming_message call during which a verifier returns an error
\* returns that error and stores no verdict, and has extended the binding
\* token by the serialized assertions of its message and changed nothing
\* else; this also holds of the same call made again.
C33_FailedPutExtendsToken ==
    [][FailedPut =>
          LET msg == NewCall("h1").arg.val
          IN /\ NewCall("h1").ret
                    = Err(Verify(handler["h1"].config.peer_verifiers[Id_a].verifier,
                                 msg.endorsed_evidence[Id_a].evidence.val,
                                 msg.endorsed_evidence[Id_a].endorsements.val).err)
             /\ handler'["h1"].attestation_result = None
             /\ handler'["h1"] =
                    [handler["h1"] EXCEPT
                        !.attestation_binding_token =
                            @ \o SerializeAssertions(msg.assertions)]
             /\ SerializeAssertions(msg.assertions) # <<>>]_vars

\* The same message has failed twice and its assertions are in the token
\* twice.
C33_Witness ==
    /\ Len(calls["h1"]) = 2
    /\ IsPut(calls["h1"][1]) /\ ~IsOk(calls["h1"][1].ret)
    /\ calls["h1"][2] = calls["h1"][1]
    /\ Token = SerializeAssertions(MsgGarbledAsserting.assertions)
                   \o SerializeAssertions(MsgGarbledAsserting.assertions)
    /\ Token # <<>>
    /\ handler["h1"].attestation_result = None

(***************************************************************************)
(* C34.  The peer verifier of a Success result.                            *)
(***************************************************************************)
\* C34: every ID with a Success result in the stored verdict is a key of
\* config.peer_verifiers, and no take_attestation_state call has panicked.
C34_SuccessHasPeerVerifier ==
    /\ IsSome(Stored) => SuccessIds(GetAttestationResults(Stored.val)) \subseteq DOMAIN V
    /\ \A i \in 1..Len(calls["h1"]) : calls["h1"][i].ret.tag \in {"Ok", "Err"}

\* A handler was finalized whose verdict has a Success result and a result
\* for an ID it has no verifier for.
C34_Witness ==
    /\ Finalized("h1")
    /\ LET results == GetAttestationResults(Final("h1").peer_attestation_verdict)
       IN /\ SuccessIds(results) # {}
          /\ \E id \in DOMAIN results : id \notin DOMAIN V

(***************************************************************************)
(* C35.  The leaf that verify_quote_cert_chain_and_extract_leaf returns.   *)
(***************************************************************************)
\* C35 as stated: when the function succeeds the leaf it returns is the first
\* certificate of the chain on the wire and the signature of that
\* certificate has been verified against the certificate after it, whatever
\* the length of the chain; an empty chain gives the error "certificate
\* chain is empty".
C35_AsStated ==
    ChainValidated =>
        /\ input.chain = <<>> => output.val.result = Err(Anyhow("certificate chain is empty"))
        /\ IsOk(output.val.result) =>
               /\ input.chain # <<>>
               /\ output.val.result.val = input.chain[1]
               /\ \E i \in 1..Len(output.val.checked) : output.val.checked[i] = 1

(***************************************************************************)
(* SharedDbClient::get_or_connect (oak_private_memory/src/app.rs), called  *)
(* by concurrent tasks.  client is the content of the RwLock, write_guard  *)
(* the task that holds its write lock; a read lock is taken and released   *)
(* within one step.  tasks[t] is the position of task t in its call, the   *)
(* locals of the call and the calls it has finished; connects lists the    *)
(* connections that were made.                                             *)
(***************************************************************************)
MAX_CONNECT_RETRIES == 5

INITIAL_BACKOFF_MS == 100

\* The calls one task makes.
MaxTaskCalls == 2

Tasks == {"t1", "t2", "t3"}

\* The task after its call has returned ret.
Returned(task, ret) ==
    [task EXCEPT !.pc = "idle",
                 !.returned = Append(@, [ret |-> ret, tried |-> task.tried,
                                         slept |-> task.slept])]

InitDb ==
    /\ client = None
    /\ write_guard = None
    /\ tasks = [t \in Tasks |->
                   [pc |-> "idle", backoff |-> 0, attempt |-> 0, tried |-> 0,
                    slept |-> <<>>, returned |-> <<>>]]
    /\ connects = <<>>
    /\ NoHandlers /\ NoFunction /\ NoSession

\* The call begins: under the read lock, a cached client is returned.
ReadLock(t) ==
    /\ tasks[t].pc = "idle"
    /\ Len(tasks[t].returned) < MaxTaskCalls
    /\ write_guard = None
    /\ LET called == [tasks[t] EXCEPT !.tried = 0, !.slept = <<>>,
                                      !.backoff = 0, !.attempt = 0]
       IN IF IsSome(client)
          THEN tasks' = [tasks EXCEPT ![t] = Returned(called, Ok(client.val))]
          ELSE tasks' = [tasks EXCEPT ![t] = [called EXCEPT !.pc = "write"]]
    /\ UNCHANGED <<client, write_guard, connects, handlerVars, functionVars, sessionVars>>

\* Variant of WriteLock: the client is not looked at again under the write
\* lock.
WriteLockUnchecked(t) ==
    /\ tasks[t].pc = "write"
    /\ write_guard = None
    /\ /\ write_guard' = Some(t)
       /\ tasks' = [tasks EXCEPT ![t].pc = "connect",
                                 ![t].backoff = INITIAL_BACKOFF_MS,
                                 ![t].attempt = 0]
    /\ UNCHANGED <<client, connects, handlerVars, functionVars, sessionVars>>

\* The write lock is acquired and the client looked at again; if there is
\* still none the loop begins.
WriteLock(t) ==
    /\ tasks[t].pc = "write"
    /\ write_guard = None
    /\ IF IsSome(client)
       THEN /\ tasks' = [tasks EXCEPT ![t] = Returned(tasks[t], Ok(client.val))]
            /\ UNCHANGED write_guard
       ELSE /\ write_guard' = Some(t)
            /\ tasks' = [tasks EXCEPT ![t].pc = "connect",
                                      ![t].backoff = INITIAL_BACKOFF_MS,
                                      ![t].attempt = 0]
    /\ UNCHANGED <<client, connects, handlerVars, functionVars, sessionVars>>

\* endpoint.connect() succeeds: the new client is cached and returned.
ConnectOk(t) ==
    /\ tasks[t].pc = "connect"
    /\ LET new_client == [connection |-> Len(connects) + 1]
       IN /\ client' = Some(new_client)
          /\ connects' = Append(connects, [task |-> t, client |-> new_client])
          /\ tasks' = [tasks EXCEPT
                          ![t] = Returned([tasks[t] EXCEPT !.tried = @ + 1], Ok(new_client))]
    /\ write_guard' = None
    /\ UNCHANGED <<handlerVars, functionVars, sessionVars>>

\* endpoint.connect() fails.
ConnectErr(t) ==
    /\ tasks[t].pc = "connect"
    /\ tasks' = [tasks EXCEPT ![t].pc = "sleep", ![t].tried = @ + 1]
    /\ UNCHANGED <<client, write_guard, connects, handlerVars, functionVars, sessionVars>>

\* Variant of Sleep: the backoff stays what it is.
SleepConstant(t) ==
    /\ tasks[t].pc = "sleep"
    /\ LET slept == [tasks[t] EXCEPT !.slept = Append(@, tasks[t].backoff),
                                     !.backoff = tasks[t].backoff,
                                     !.attempt = @ + 1]
       IN IF slept.attempt < MAX_CONNECT_RETRIES
          THEN /\ tasks' = [tasks EXCEPT ![t] = [slept EXCEPT !.pc = "connect"]]
               /\ UNCHANGED write_guard
          ELSE /\ tasks' = [tasks EXCEPT
                               ![t] = Returned(slept, Err(Anyhow(
                                          "Failed to connect to database service after 5 attempts")))]
               /\ write_guard' = None
    /\ UNCHANGED <<client, connects, handlerVars, functionVars, sessionVars>>

\* The sleep after a failed attempt, the doubling of the backoff and the next
\* turn of the loop, or the bail! after the last.
Sleep(t) ==
    /\ tasks[t].pc = "sleep"
    /\ LET slept == [tasks[t] EXCEPT !.slept = Append(@, tasks[t].backoff),
                                     !.backoff = tasks[t].backoff * 2,
                                     !.attempt = @ + 1]
       IN IF slept.attempt < MAX_CONNECT_RETRIES
          THEN /\ tasks' = [tasks EXCEPT ![t] = [slept EXCEPT !.pc = "connect"]]
               /\ UNCHANGED write_guard
          ELSE /\ tasks' = [tasks EXCEPT
                               ![t] = Returned(slept, Err(Anyhow(
                                          "Failed to connect to database service after 5 attempts")))]
               /\ write_guard' = None
    /\ UNCHANGED <<client, connects, handlerVars, functionVars, sessionVars>>

NextDb ==
    \E t \in Tasks :
        \/ ReadLock(t)
        \/ WriteLock(t)
        \/ ConnectOk(t)
        \/ ConnectErr(t)
        \/ Sleep(t)

SpecDb == InitDb /\ [][NextDb]_vars

\* The calls that have returned, as <<task, number of the call>>.
ReturnedCalls == {<<t, i>> \in Tasks \X (1..MaxTaskCalls) : i <= Len(tasks[t].returned)}

\* Task t returns from a call in this step; LastReturn(t) is what it returns.
Returns(t) == Len(tasks'[t].returned) = Len(tasks[t].returned) + 1

LastReturn(t) == tasks'[t].returned[Len(tasks'[t].returned)]

(***************************************************************************)
(* C36.  At most one connection.                                           *)
(***************************************************************************)
\* C36: at most one connection is ever made and cached; every call that
\* returns Ok returns that client, and only the call that made the
\* connection tried to connect; once a client is cached it stays, and every
\* call that returns from then on returns it without having tried to
\* connect.
C36_OneConnection ==
    /\ [](/\ Len(connects) <= 1
          /\ IsSome(client) <=> Len(connects) = 1
          /\ \A c \in ReturnedCalls :
                 LET r == tasks[c[1]].returned[c[2]]
                 IN IsOk(r.ret) =>
                        /\ connects # <<>>
                        /\ r.ret.val = connects[1].client
                        /\ client = Some(r.ret.val)
          /\ Cardinality({c \in ReturnedCalls :
                              /\ IsOk(tasks[c[1]].returned[c[2]].ret)
                              /\ tasks[c[1]].returned[c[2]].tried > 0}) <= 1)
    /\ [][IsSome(client) =>
              /\ client' = client
              /\ \A t \in Tasks :
                     Returns(t) => /\ LastReturn(t).ret = Ok(client.val)
                                   /\ LastReturn(t).tried = 0]_vars

\* One task has connected while the other waited for the write lock, and the
\* other has returned the client of the first; then the first called again.
C36_Witness ==
    /\ Len(connects) = 1
    /\ connects[1].task = "t1"
    /\ Len(tasks["t2"].returned) = 1
    /\ tasks["t2"].returned[1].ret = Ok(connects[1].client)
    /\ tasks["t2"].returned[1].tried = 0
    /\ Len(tasks["t1"].returned) = 2
    /\ tasks["t1"].returned[2].ret = tasks["t1"].returned[1].ret
    /\ tasks["t1"].returned[1].tried = 3

(***************************************************************************)
(* C37.  The attempts of one call.                                         *)
(***************************************************************************)
\* The sleeps after the first n failed attempts: 100 ms, then twice the one
\* before.
RECURSIVE Backoffs(_)
Backoffs(n) == IF n = 0 THEN <<>> ELSE Append(Backoffs(n - 1), 100 * 2 ^ (n - 1))

\* C37: a call makes at most 5 connection attempts and sleeps after each
\* failed one, 100 ms the first time and twice as long each time after; a
\* call returns an error only after 5 failed attempts, and then no client is
\* cached and the write lock is free.
C37_BoundedAttempts ==
    /\ [](/\ \A t \in Tasks :
                 /\ tasks[t].tried <= 5
                 /\ tasks[t].pc = "connect" =>
                        /\ tasks[t].tried = tasks[t].attempt
                        /\ tasks[t].slept = Backoffs(tasks[t].tried)
                        /\ tasks[t].backoff = 100 * 2 ^ tasks[t].tried
                 /\ tasks[t].pc = "sleep" => tasks[t].slept = Backoffs(tasks[t].tried - 1)
          /\ \A c \in ReturnedCalls :
                 LET r == tasks[c[1]].returned[c[2]]
                 IN /\ r.tried <= 5
                    /\ IsOk(r.ret) /\ r.tried > 0 => r.slept = Backoffs(r.tried - 1)
                    /\ ~IsOk(r.ret) => r.tried = 5 /\ r.slept = Backoffs(5))
    /\ [][\A t \in Tasks :
              (Returns(t) /\ ~IsOk(LastReturn(t).ret))
                  => client' = None /\ write_guard' = None]_vars

\* A call has failed after five attempts and the next call of the same task
\* is at its second attempt.
C37_Witness ==
    /\ Len(tasks["t1"].returned) = 1
    /\ ~IsOk(tasks["t1"].returned[1].ret)
    /\ tasks["t1"].returned[1].slept = <<100, 200, 400, 800, 1600>>
    /\ tasks["t1"].pc = "connect"
    /\ tasks["t1"].tried = 1
    /\ tasks["t1"].slept = <<100>>
    /\ write_guard = Some("t1")

(***************************************************************************)
(* SealedMemorySessionHandler (oak_private_memory/src/app.rs): one handler *)
(* and the requests it handles one after the other, the database service   *)
(* behind it and the persistence service.  session_context is the field of *)
(* the handler; blobs is what the database service holds for each user;    *)
(* persistence_tx is what was sent on the channel and how much of it the   *)
(* persistence service has received; log is the last request with its      *)
(* response, the contexts set up so far and the databases written.         *)
(***************************************************************************)
\* The requests one handler handles.
MaxRequests == 3

\* A key is the sequence of its bytes; a usable key has 32 of them.
Key(byte) == [i \in 1..32 |-> byte]

ShortKey == [i \in 1..16 |-> 1]

\* SealedMemorySessionHandler::is_valid_key
IsValidKey(key) == Len(key) = 32

\* The data encryption key generated for a new user.
Dek(uid) == [dek_of |-> uid]

\* get_or_create_db and setup_user_session_context: the database is the
\* stored one, unchanged, or a new one, changed.
SetupUserSessionContext(uid, dek, store) ==
    [uid |-> uid,
     dek |-> dek,
     database |-> [memories |-> store[uid].memories, changed |-> ~store[uid].has_db]]

\* boot_strap_handler
BootStrapHandler(context, store, request, env) ==
    IF request.key_encryption_key = <<>>
    THEN [context |-> context, store |-> store,
          ret |-> Err(Anyhow("key_encryption_key not set in UserRegistrationRequest"))]
    ELSE IF request.pm_uid = ""
    THEN [context |-> context, store |-> store,
          ret |-> Err(Anyhow("pm_uid not set in UserRegistrationRequest"))]
    ELSE IF ~request.boot_strap_info
    THEN [context |-> context, store |-> store,
          ret |-> Err(Anyhow("boot_strap_info (KeyDerivationInfo) not set in UserRegistrationRequest"))]
    ELSE IF ~IsValidKey(request.key_encryption_key)
    THEN [context |-> context, store |-> store, ret |-> Err(Anyhow("Not a valid key!"))]
    ELSE IF ~env.connects
    THEN [context |-> context, store |-> store,
          ret |-> Err([msg |-> "Failed to connect to database service after 5 attempts",
                       context |-> <<"Failed to get DB client for bootstrap operation">>])]
    ELSE IF ~env.rpc
    THEN [context |-> context, store |-> store, ret |-> Err(Anyhow("rpc failed"))]
    ELSE IF request.pm_uid \in DOMAIN store
    THEN [context |-> context, store |-> store, ret |-> Ok([status |-> "UserAlreadyExists"])]
    ELSE LET registered ==
                 (request.pm_uid :> [wrapped_with |-> request.key_encryption_key,
                                     dek |-> Dek(request.pm_uid),
                                     has_db |-> FALSE,
                                     memories |-> {}]) @@ store
         IN [context |-> Some(SetupUserSessionContext(request.pm_uid, Dek(request.pm_uid),
                                                      registered)),
             store |-> registered,
             ret |-> Ok([status |-> "Success"])]

\* Variant of KeySyncHandler: a key sync for an unknown uid sets up an empty
\* session for it.
KeySyncHandlerCreating(context, store, request, env) ==
    IF IsSome(context)
    THEN [context |-> context, store |-> store, ret |-> Ok([status |-> "Success"])]
    ELSE IF request.key_encryption_key = <<>> \/ request.pm_uid = ""
    THEN [context |-> context, store |-> store, ret |-> Err(Anyhow("uid or key not set in request"))]
    ELSE IF ~IsValidKey(request.key_encryption_key)
    THEN [context |-> context, store |-> store, ret |-> Err(Anyhow("Not a valid key!"))]
    ELSE IF ~env.connects
    THEN [context |-> context, store |-> store,
          ret |-> Err([msg |-> "Failed to connect to database service after 5 attempts",
                       context |-> <<"Failed to get DB client for key sync">>])]
    ELSE IF ~env.rpc
    THEN [context |-> context, store |-> store, ret |-> Err(Anyhow("rpc failed"))]
    ELSE IF request.pm_uid \notin DOMAIN store
    THEN [context |-> Some([uid |-> request.pm_uid, dek |-> Dek(request.pm_uid),
                            database |-> [memories |-> {}, changed |-> TRUE]]),
          store |-> store,
          ret |-> Ok([status |-> "Success"])]
    ELSE IF store[request.pm_uid].wrapped_with # request.key_encryption_key
    THEN [context |-> context, store |-> store,
          ret |-> Err([msg |-> "decryption failed", context |-> <<"Failed to decrypt DEK">>])]
    ELSE [context |-> Some(SetupUserSessionContext(request.pm_uid,
                                                   store[request.pm_uid].dek, store)),
          store |-> store,
          ret |-> Ok([status |-> "Success"])]

\* key_sync_handler
KeySyncHandler(context, store, request, env) ==
    IF IsSome(context)
    THEN [context |-> context, store |-> store, ret |-> Ok([status |-> "Success"])]
    ELSE IF request.key_encryption_key = <<>> \/ request.pm_uid = ""
    THEN [context |-> context, store |-> store, ret |-> Err(Anyhow("uid or key not set in request"))]
    ELSE IF ~IsValidKey(request.key_encryption_key)
    THEN [context |-> context, store |-> store, ret |-> Err(Anyhow("Not a valid key!"))]
    ELSE IF ~env.connects
    THEN [context |-> context, store |-> store,
          ret |-> Err([msg |-> "Failed to connect to database service after 5 attempts",
                       context |-> <<"Failed to get DB client for key sync">>])]
    ELSE IF ~env.rpc
    THEN [context |-> context, store |-> store, ret |-> Err(Anyhow("rpc failed"))]
    ELSE IF request.pm_uid \notin DOMAIN store
    THEN [context |-> context, store |-> store, ret |-> Ok([status |-> "InvalidPmUid"])]
    ELSE IF store[request.pm_uid].wrapped_with # request.key_encryption_key
    THEN [context |-> context, store |-> store,
          ret |-> Err([msg |-> "decryption failed", context |-> <<"Failed to decrypt DEK">>])]
    ELSE [context |-> Some(SetupUserSessionContext(request.pm_uid,
                                                   store[request.pm_uid].dek, store)),
          store |-> store,
          ret |-> Ok([status |-> "Success"])]

NeedKeySync == Err(Anyhow("You need to call key sync first"))

\* add_memory_handler, get_memories_handler, get_memory_by_id_handler,
\* reset_memory_handler, search_memory_handler, delete_memory_handler: what
\* the handler does to the database of the context and what it returns.
MemoryHandler(context, request) ==
    IF ~IsSome(context) THEN [context |-> context, ret |-> NeedKeySync]
    ELSE LET database == context.val.database
             with(db) == Some([context.val EXCEPT !.database = db])
         IN CASE request.kind = "AddMemoryRequest" ->
                   IF request.memory
                   THEN [context |-> with([memories |-> database.memories \cup {"m"},
                                           changed |-> TRUE]),
                         ret |-> Ok([id |-> "m"])]
                   ELSE [context |-> context,
                         ret |-> Err(Anyhow("memory not set in AddMemoryRequest"))]
              [] request.kind = "ResetMemoryRequest" ->
                   [context |-> with([memories |-> {}, changed |-> TRUE]),
                    ret |-> Ok([success |-> TRUE])]
              [] request.kind = "DeleteMemoryRequest" ->
                   [context |-> with([memories |-> database.memories \ {"m"},
                                      changed |-> TRUE]),
                    ret |-> Ok([success |-> TRUE])]
              [] request.kind = "GetMemoryByIdRequest" ->
                   [context |-> context, ret |-> Ok([success |-> "m" \in database.memories])]
              [] OTHER ->
                   [context |-> context, ret |-> Ok([memories |-> database.memories])]

\* The match of handle() on the request.
Dispatch(context, store, request, env) ==
    CASE request.kind = "UserRegistrationRequest" ->
           BootStrapHandler(context, store, request, env)
      [] request.kind = "KeySyncRequest" -> KeySyncHandler(context, store, request, env)
      [] OTHER -> [context |-> MemoryHandler(context, request).context,
                   store |-> store,
                   ret |-> MemoryHandler(context, request).ret]

Uids == {"alice", "bob"}

UserRegistrationRequests ==
    [kind : {"UserRegistrationRequest"}, pm_uid : Uids,
     key_encryption_key : {Key(1), Key(2)}, boot_strap_info : {TRUE}]
        \cup {[kind |-> "UserRegistrationRequest", pm_uid |-> "", key_encryption_key |-> Key(1),
               boot_strap_info |-> TRUE],
              [kind |-> "UserRegistrationRequest", pm_uid |-> "bob", key_encryption_key |-> <<>>,
               boot_strap_info |-> TRUE],
              [kind |-> "UserRegistrationRequest", pm_uid |-> "bob",
               key_encryption_key |-> ShortKey, boot_strap_info |-> TRUE],
              [kind |-> "UserRegistrationRequest", pm_uid |-> "bob",
               key_encryption_key |-> Key(2), boot_strap_info |-> FALSE]}

KeySyncRequests ==
    [kind : {"KeySyncRequest"}, pm_uid : Uids \cup {""},
     key_encryption_key : {Key(1), Key(2), ShortKey, <<>>}]

MemoryKinds ==
    {"AddMemoryRequest", "GetMemoriesRequest", "GetMemoryByIdRequest", "ResetMemoryRequest",
     "SearchMemoryRequest", "DeleteMemoryRequest"}

MemoryRequests ==
    [kind : MemoryKinds, memory : {TRUE}]
        \cup {[kind |-> "AddMemoryRequest", memory |-> FALSE]}

Requests == UserRegistrationRequests \cup KeySyncRequests \cup MemoryRequests

\* Whether get_or_connect returns a client and whether the calls of the
\* database service succeed, during one request.
Envs == [connects : BOOLEAN, rpc : BOOLEAN]

\* alice is registered and has a stored database or none; bob is not.
InitSession ==
    /\ session_context = None
    /\ persistence_tx = [sent |-> <<>>, received |-> 0]
    /\ \E has_db \in BOOLEAN :
           blobs = ("alice" :> [wrapped_with |-> Key(1), dek |-> Dek("alice"),
                               has_db |-> has_db,
                               memories |-> IF has_db THEN {"m"} ELSE {}])
    /\ dropped = FALSE
    /\ log = [handled |-> 0, last |-> None, established |-> <<>>, written |-> <<>>]
    /\ NoHandlers /\ NoFunction /\ NoDb

\* handle(): one request.
Handle(request, env) ==
    /\ ~dropped
    /\ log.handled < MaxRequests
    /\ LET r == Dispatch(session_context, blobs, request, env)
       IN /\ session_context' = r.context
          /\ blobs' = r.store
          /\ log' = [log EXCEPT
                        !.handled = @ + 1,
                        !.last = Some([request |-> request, ret |-> r.ret]),
                        !.established =
                            IF request.kind \in MemoryKinds \/ r.context = session_context
                            THEN @ ELSE Append(@, r.context.val.uid)]
    /\ UNCHANGED <<persistence_tx, dropped, handlerVars, functionVars, dbVars>>

\* impl Drop for SealedMemorySessionHandler
Drop ==
    /\ ~dropped
    /\ dropped' = TRUE
    /\ session_context' = None
    /\ persistence_tx' = IF IsSome(session_context)
                         THEN [persistence_tx EXCEPT !.sent = Append(@, session_context.val)]
                         ELSE persistence_tx
    /\ UNCHANGED <<blobs, log, handlerVars, functionVars, dbVars>>

\* run_persistence_service: one received context, persist_database.
Persist ==
    /\ persistence_tx.received < Len(persistence_tx.sent)
    /\ persistence_tx' = [persistence_tx EXCEPT !.received = @ + 1]
    /\ LET user_context == persistence_tx.sent[persistence_tx.received + 1]
       IN IF user_context.database.changed
          THEN /\ blobs' = [blobs EXCEPT
                               ![user_context.uid].has_db = TRUE,
                               ![user_context.uid].memories = user_context.database.memories]
               /\ log' = [log EXCEPT !.written = Append(@, user_context.uid)]
          ELSE UNCHANGED <<blobs, log>>
    /\ UNCHANGED <<session_context, dropped, handlerVars, functionVars, dbVars>>

NextSession ==
    \/ \E request \in Requests, env \in Envs : Handle(request, env)
    \/ Drop
    \/ Persist

SpecSession == InitSession /\ [][NextSession]_vars

\* This step handles a request; Request and Response are the request and
\* what handle() made of it.
Handles == log'.handled = log.handled + 1

Request == log'.last.val.request

Response == log'.last.val.ret

\* The uids of the contexts sent to the persistence service.
SentUids == [i \in 1..Len(persistence_tx.sent) |-> persistence_tx.sent[i].uid]

(***************************************************************************)
(* C38.  An established session context is not replaced.                   *)
(***************************************************************************)
\* C38 as stated: when the handler has a session context, a KeySyncRequest
\* returns Success whatever its uid and key and leaves the context and the
\* database service as they are, and a UserRegistrationRequest leaves the
\* context that of the same user, with the same key and database.
C38_AsStated ==
    [][(Handles /\ IsSome(session_context)) =>
          /\ Request.kind = "KeySyncRequest" =>
                 /\ Response = Ok([status |-> "Success"])
                 /\ session_context' = session_context
                 /\ blobs' = blobs
          /\ Request.kind = "UserRegistrationRequest" =>
                 session_context' = session_context]_vars

(***************************************************************************)
(* C39.  Persistence of the session contexts.                              *)
(***************************************************************************)
\* The uids of the received contexts whose database was changed.
RECURSIVE ChangedUids(_)
ChangedUids(contexts) ==
    IF contexts = <<>> THEN <<>>
    ELSE IF Head(contexts).database.changed
         THEN <<Head(contexts).uid>> \o ChangedUids(Tail(contexts))
         ELSE ChangedUids(Tail(contexts))

\* C39 as stated: nothing is sent to the persistence channel before the
\* handler is dropped; once it is dropped, the contexts sent are those the
\* handler established, each once, and none if it established none; and the
\* persistence service has written the database of exactly the received
\* contexts whose changed flag is set.
C39_AsStated ==
    /\ ~dropped => persistence_tx.sent = <<>>
    /\ dropped => SentUids = log.established
    /\ log.written = ChangedUids(SubSeq(persistence_tx.sent, 1, persistence_tx.received))

(***************************************************************************)
(* C40.  Memory requests need a session context.                           *)
(***************************************************************************)
\* C40: as long as the handler has no session context, every memory request
\* fails with "You need to call key sync first" and changes nothing; a
\* context comes from a key sync or a registration that returns Success
\* only, and neither a registration of a user that exists nor a key sync for
\* an unknown uid sets one up.
C40_NeedsKeySync ==
    [][(Handles /\ ~IsSome(session_context)) =>
          /\ Request.kind \in MemoryKinds =>
                 /\ Response = NeedKeySync
                 /\ UNCHANGED <<session_context, blobs, persistence_tx, dropped>>
          /\ IsSome(session_context') =>
                 /\ Request.kind \in {"KeySyncRequest", "UserRegistrationRequest"}
                 /\ Response = Ok([status |-> "Success"])
          /\ (Request.kind = "UserRegistrationRequest" /\ Request.pm_uid \in DOMAIN blobs)
                 => ~IsSome(session_context')
          /\ (Request.kind = "KeySyncRequest" /\ Request.pm_uid \notin DOMAIN blobs)
                 => ~IsSome(session_context')]_vars

\* After two requests that set up no context a memory request was refused.
C40_Witness ==
    /\ log.handled = 3
    /\ IsSome(log.last)
    /\ log.last.val.request.kind = "ResetMemoryRequest"
    /\ log.last.val.ret = NeedKeySync
    /\ ~IsSome(session_context)
    /\ log.established = <<>>
    /\ ~dropped
====
